---- MODULE Spec2Model ----
(***************************************************************************)
(* Graph engine call contract and the generated request handlers of        *)
(* queries.rs.  Two builds of the handlers exist: the deployed one         *)
(* (src/queries.rs, build "main") and the dev container one                *)
(* (src/.helix/dev/helix-container/src/queries.rs, build "dev").           *)
(*                                                                         *)
(* The engine primitives (n_from_type, n_from_index, upsert_n, add_edge,   *)
(* out_node, in_node, transactions) live in the helix_db crate; they are   *)
(* modelled from the engine specification.  Every handler is translated    *)
(* statement by statement from queries.rs.                                 *)
(***************************************************************************)
EXTENDS Integers, Sequences, FiniteSets, TLC

VARIABLES
    build,      \* which queries.rs is compiled in: "main" or "dev"
    db,         \* the committed store: nodes, edges, secondary index
    resp,       \* the response of the last returned request
    writer,     \* the request holding the write transaction, 0 when none
    pc,         \* per request slot: position inside its handler
    req,        \* per request slot: handler name and deserialized input
    txn,        \* per request slot: the store as seen by its transaction
    loc         \* per request slot: the handler's local bindings

vars == <<build, db, resp, writer, pc, req, txn, loc>>

\* ------------------------------------------------------------------ bounds
MaxNodes == 2
MaxEdges == 1
NumProcs == 2

MaxRange == 3

MaxVectors == 2
MaxK == 2
Keys  == {"k1", "k2"}
Times == {"t1", "t2"}
Metas == {"m1", "m2"}
\* embeddings: non-zero, two of them parallel
Embeddings == {<<1, 0>>, <<1, 1>>, <<2, 2>>}
\* the distance methods a store can be configured with
Metrics == {"cosine", "l2"}
Procs == 1 .. NumProcs
\* the worker the read requests go to: a read handler writes nothing another
\* handler reads, so one reader among the writers shows what any reader sees
Readers == {1}

\* --------------------------------------------------------------- utilities
Range(f) == {f[i] : i \in DOMAIN f}

RECURSIVE SetToSeq(_)
\* ascending order of ids: the key order of the node and edge tables
SetToSeq(S) ==
    IF S = {} THEN <<>>
    ELSE LET m == CHOOSE x \in S : \A y \in S : x <= y
         IN  <<m>> \o SetToSeq(S \ {m})

RECURSIVE Flatten(_)
Flatten(ss) == IF ss = <<>> THEN <<>> ELSE Head(ss) \o Flatten(Tail(ss))

\* ------------------------------------------------------------ configuration
\* variant of config that declares every index non-unique
config_no_unique(b) ==
    IF b = "main"
    THEN [f \in {"name", "canonical_name"} |-> "Index"]
    ELSE [f \in {"external_id", "user_key", "node_key", "session_key",
                 "screenshot_external_id", "workflow_tag", "name",
                 "entity_type", "category", "user_id", "intent_category",
                 "canonical_slug", "intent_label", "primary_tool",
                 "session_id", "action_type", "canonical_name"} |-> "Index"]

\* graph_config.secondary_indices of config(): field name -> index kind
config(b) ==
    IF b = "main"
    THEN [f \in {"name", "canonical_name"} |-> "Index"]
    ELSE [f \in {"external_id", "user_key", "node_key", "session_key",
                 "screenshot_external_id", "workflow_tag", "name",
                 "entity_type", "category", "user_id", "intent_category",
                 "canonical_slug", "intent_label", "primary_tool",
                 "session_id", "action_type", "canonical_name"} |->
            IF f \in {"external_id", "screenshot_external_id", "name",
                      "canonical_slug", "canonical_name"}
            THEN "Unique" ELSE "Index"]

Indexed(f)  == f \in DOMAIN config(build)
IsUnique(f) == Indexed(f) /\ config(build)[f] = "Unique"

\* ------------------------------------------------------------------ store
\* nodes and edges are keyed by their id (the position in the sequence: no
\* handler of queries.rs drops a record); index holds the secondary index
\* entries <<type, field, value, owner id>>.
EmptyStore == [nodes |-> <<>>, edges |-> <<>>, index |-> {}]

NodeIds(s)   == DOMAIN s.nodes
Label(s, id) == s.nodes[id].label
Props(s, id) == s.nodes[id].props

get_property(s, id, f) ==
    IF f \in DOMAIN Props(s, id) THEN <<Props(s, id)[f]>> ELSE <<>>

\* a value produced by a step: Ok with a sequence of ids, or an error
Ok(s, ids)  == [err |-> "", s |-> s, ids |-> ids]
Err(s, e)   == [err |-> e, s |-> s, ids |-> <<>>]

\* ---------------------------------------------------------------- seeding
n_from_type(s, label) ==
    SetToSeq({id \in NodeIds(s) : Label(s, id) = label})

\* filter_ref closure of the handlers:
\*   val.get_property(f).map_or(false, |v| *v == value)
filter_ref(s, ids, f, value) ==
    SelectSeq(ids, LAMBDA id : get_property(s, id, f) = <<value>>)

n_from_index(s, label, f, value) ==
    SetToSeq({id \in NodeIds(s) : <<label, f, value, id>> \in s.index})

\* collect_to_obj of a lookup that must resolve to one record
collect_to_obj(s, ids) ==
    IF ids = <<>> THEN Err(s, "NotFound") ELSE Ok(s, <<Head(ids)>>)

\* --------------------------------------------------------- index maintenance
\* entries a node of this label owns for the given properties
IndexEntries(label, props, id) ==
    {<<label, f, props[f], id>> : f \in {g \in DOMAIN props : Indexed(g)}}

\* a unique index already maps one of the values to another owner
UniqueConflict(s, label, props, id) ==
    \E f \in DOMAIN props :
        /\ IsUnique(f)
        /\ \E e \in s.index :
              e[1] = label /\ e[2] = f /\ e[3] = props[f] /\ e[4] # id

\* ---------------------------------------------------------------- mutation
\* add_n: insert a node and its index entries
add_n(s, label, props) ==
    LET id == Len(s.nodes) + 1 IN
    IF UniqueConflict(s, label, props, id)
    THEN Err(s, "ConstraintViolation")
    ELSE Ok([s EXCEPT !.nodes = Append(@, [label |-> label, props |-> props]),
                      !.index = @ \cup IndexEntries(label, props, id)],
            <<id>>)

\* variant of merge_n that leaves the entries of the overwritten values
merge_n_stale_index(s, id, props) ==
    IF UniqueConflict(s, Label(s, id), props, id)
    THEN Err(s, "ConstraintViolation")
    ELSE Ok([s EXCEPT !.nodes[id].props = props @@ Props(s, id),
                      !.index = @ \cup IndexEntries(Label(s, id), props, id)],
            <<id>>)

\* add_n(label, props, Some(fields)): the listed fields must collectively be
\* unique among the nodes of the label, checked before the insert
add_n_unique(s, label, props, fields) ==
    IF \E id \in NodeIds(s) :
          /\ Label(s, id) = label
          /\ \A f \in fields : get_property(s, id, f) = <<props[f]>>
    THEN Err(s, "ConstraintViolation")
    ELSE add_n(s, label, props)

\* merge the given fields into one existing node, field by field; the index
\* entries of the overwritten values are replaced by those of the new ones
merge_n(s, id, props) ==
    LET old   == Props(s, id)
        label == Label(s, id)
        stale == {e \in s.index : e[1] = label /\ e[4] = id /\ e[2] \in DOMAIN props}
    IN  IF UniqueConflict(s, label, props, id)
        THEN Err(s, "ConstraintViolation")
        ELSE Ok([s EXCEPT !.nodes[id].props = props @@ old,
                          !.index = (@ \ stale) \cup IndexEntries(label, props, id)],
                <<id>>)

RECURSIVE merge_all(_, _, _)
merge_all(s, ids, props) ==
    IF ids = <<>> THEN Ok(s, <<>>)
    ELSE LET r == merge_n(s, Head(ids), props) IN
         IF r.err # "" THEN Err(s, r.err)
         ELSE LET rest == merge_all(r.s, Tail(ids), props) IN
              IF rest.err # "" THEN Err(s, rest.err)
              ELSE Ok(rest.s, r.ids \o rest.ids)

\* upsert_n over the match set produced by the previous stage: insert when it
\* is empty, otherwise merge into every matched record
upsert_n(s, ids, label, props) ==
    IF ids = <<>> THEN add_n(s, label, props) ELSE merge_all(s, ids, props)

\* variant of add_edge that keeps one edge of a label between two records
add_edge_once(s, label, props, from, to) ==
    IF from \notin NodeIds(s) \/ to \notin NodeIds(s)
    THEN Err(s, "NotFound")
    ELSE LET same == {e \in DOMAIN s.edges :
                        /\ s.edges[e].label = label
                        /\ s.edges[e].from = from /\ s.edges[e].to = to}
         IN  IF same # {} THEN Ok(s, <<CHOOSE e \in same : TRUE>>)
             ELSE Ok([s EXCEPT !.edges = Append(@, [label |-> label,
                          from |-> from, to |-> to, props |-> props])],
                     <<Len(s.edges) + 1>>)

\* variant of add_edge that does not look at the endpoints
add_edge_unchecked(s, label, props, from, to) ==
    Ok([s EXCEPT !.edges = Append(@, [label |-> label, from |-> from,
                                      to |-> to, props |-> props])],
       <<Len(s.edges) + 1>>)

\* add_edge(label, props, from, to, _, _): both endpoints must be visible
add_edge(s, label, props, from, to) ==
    IF from \notin NodeIds(s) \/ to \notin NodeIds(s)
    THEN Err(s, "NotFound")
    ELSE Ok([s EXCEPT !.edges = Append(@, [label |-> label, from |-> from,
                                            to |-> to, props |-> props])],
            <<Len(s.edges) + 1>>)

\* --------------------------------------------------------------- expansion
EdgeIds(s) == DOMAIN s.edges

out_of(s, id, label) ==
    LET es == SetToSeq({e \in EdgeIds(s) :
                          s.edges[e].label = label /\ s.edges[e].from = id})
    IN  [i \in DOMAIN es |-> s.edges[es[i]].to]

in_of(s, id, label) ==
    LET es == SetToSeq({e \in EdgeIds(s) :
                          s.edges[e].label = label /\ s.edges[e].to = id})
    IN  [i \in DOMAIN es |-> s.edges[es[i]].from]

out_node(s, ids, label) == Flatten([i \in DOMAIN ids |-> out_of(s, ids[i], label)])
in_node(s, ids, label)  == Flatten([i \in DOMAIN ids |-> in_of(s, ids[i], label)])

\* ------------------------------------------------------------ order and range
\* the order of the values a sort key can take: Value::Empty, which stands
\* for a missing property, is lowest
Rank(v) == CASE v = <<>> -> 0 [] v = <<"t1">> -> 1 [] v = <<"t2">> -> 2

\* the sequences holding each of the ids once
Perms(ids) ==
    {o \in [DOMAIN ids -> Range(ids)] : Range(o) = Range(ids)}

Descending(s, o, f) ==
    \A i, j \in DOMAIN o :
        i < j => Rank(get_property(s, o[i], f)) >= Rank(get_property(s, o[j], f))

\* variant of order_by_desc that sorts by ascending key and reverses the
\* result: records of equal key come out in the reverse of their order
order_by_desc_reversed(s, ids, f) ==
    {o \in Perms(ids) :
        /\ Descending(s, o, f)
        /\ \A i, j \in DOMAIN o :
             (i < j /\ get_property(s, o[i], f) = get_property(s, o[j], f))
             => \E a, b \in DOMAIN ids : a > b /\ ids[a] = o[i] /\ ids[b] = o[j]}

\* variant of order_by_desc that leaves the order of equal keys open
order_by_desc_unstable(s, ids, f) ==
    {o \in Perms(ids) : Descending(s, o, f)}

\* order_by_desc(|val| val.get_property(f).cloned().unwrap_or(Value::Empty)):
\* the outcomes of a stable sort by descending key, records of equal key
\* staying in the order they arrived in
order_by_desc(s, ids, f) ==
    {o \in Perms(ids) :
        /\ Descending(s, o, f)
        /\ \A i, j \in DOMAIN o :
             (i < j /\ get_property(s, o[i], f) = get_property(s, o[j], f))
             => \E a, b \in DOMAIN ids : a < b /\ ids[a] = o[i] /\ ids[b] = o[j]}

\* range(start, end): the records at the absolute positions start .. end - 1,
\* counted from 0
range(ids, start, end) ==
    SubSeq(ids, start + 1, IF end < Len(ids) THEN end ELSE Len(ids))

\* ------------------------------------------------------------ vector search
\* a store with vector records, kept in insertion order in a namespace of
\* their own, configured with a distance method
VectorStore(metric) ==
    [nodes |-> <<>>, edges |-> <<>>, index |-> {}, vectors |-> <<>>,
     metric |-> metric]

VectorIds(s, label) == {id \in DOMAIN s.vectors : s.vectors[id].label = label}

Dot(a, b) == a[1] * b[1] + a[2] * b[2]

\* the similarity of v to q, higher is better, as a fraction <<num, den>>,
\* den > 0: the squared cosine (the embeddings have no negative coordinate)
\* or the negated squared Euclidean distance
Score(metric, q, v) ==
    IF metric = "cosine"
    THEN <<Dot(q, v) * Dot(q, v), Dot(q, q) * Dot(v, v)>>
    ELSE <<0 - ((q[1] - v[1]) * (q[1] - v[1]) + (q[2] - v[2]) * (q[2] - v[2])), 1>>

ScoreGE(a, b) == a[1] * b[2] >= b[1] * a[2]

\* the best of the candidates: highest score, the one inserted first among
\* those of equal score
Nearest(s, q, S) ==
    CHOOSE v \in S : \A w \in S \ {v} :
        LET sv == Score(s.metric, q, s.vectors[v].data)
            sw == Score(s.metric, q, s.vectors[w].data)
        IN  IF ScoreGE(sw, sv) THEN ScoreGE(sv, sw) /\ v < w ELSE TRUE

RECURSIVE TopK(_, _, _, _)
TopK(s, q, S, k) ==
    IF k <= 0 \/ S = {} THEN <<>>
    ELSE <<Nearest(s, q, S)>> \o TopK(s, q, S \ {Nearest(s, q, S)}, k - 1)

\* search_v(query, k, label, None): the k vectors of the collection most
\* similar to the query, exact search
search_v(s, q, k, label) == TopK(s, q, VectorIds(s, label), k)

\* the fields of a ...ResultsReturnType struct taken from a search result
VectorView(s, id, q) ==
    [id |-> id, label |-> s.vectors[id].label, data |-> s.vectors[id].data,
     score |-> Score(s.metric, q, s.vectors[id].data)]

VectorViews(s, ids, q) == [i \in DOMAIN ids |-> VectorView(s, ids[i], q)]

\* ---------------------------------------------------------------- responses
\* the fields of a ...ReturnType struct taken from a node
View(s, id, fields) ==
    [id |-> id, label |-> Label(s, id),
     props |-> [f \in (DOMAIN Props(s, id)) \cap fields |-> Props(s, id)[f]]]

Views(s, ids, fields) == [i \in DOMAIN ids |-> View(s, ids[i], fields)]

\* Ok(response) after commit / Err(e) with the transaction dropped
Return(s, out) == [err |-> "", s |-> s, out |-> out]
Fail(s0, e)    == [err |-> e, s |-> s0, out |-> <<>>]

\* variant of Pairs that walks the two lists side by side
Pairs_zipped(froms, tos) ==
    [i \in DOMAIN froms \cap DOMAIN tos |-> <<froms[i], tos[i]>>]

\* the `for from_val in ... { add_edge(...)? }` loops of the link handlers
Pairs(froms, tos) ==
    Flatten([i \in DOMAIN froms |-> [j \in DOMAIN tos |-> <<froms[i], tos[j]>>]])

RECURSIVE add_edge_loop(_, _, _, _)
add_edge_loop(s, label, props, pairs) ==
    IF pairs = <<>> THEN Ok(s, <<>>)
    ELSE LET e == add_edge(s, label, props, Head(pairs)[1], Head(pairs)[2]) IN
         IF e.err # "" THEN Err(s, e.err)
         ELSE LET rest == add_edge_loop(e.s, label, props, Tail(pairs)) IN
              IF rest.err # "" THEN Err(s, rest.err)
              ELSE Ok(rest.s, e.ids \o rest.ids)

\* a scan-then-upsert handler body:
\*   existing = n_from_type(label).filter_ref(key == value).collect()?
\*   node     = upsert_n(label, props).collect_to_obj()?
ScanUpsert(s, label, key, value, props) ==
    LET existing == filter_ref(s, n_from_type(s, label), key, value)
        up       == upsert_n(s, existing, label, props)
    IN  IF up.err # "" THEN up ELSE collect_to_obj(up.s, up.ids)

\* a lookup-then-upsert handler body:
\*   existing = n_from_index(label, key, value).collect_to_obj()?
\*   node     = G::new_mut_from(existing).upsert_n(label, props).collect_to_obj()?
IndexUpsert(s, label, key, value, props) ==
    LET existing == collect_to_obj(s, n_from_index(s, label, key, value)) IN
    IF existing.err # "" THEN existing
    ELSE LET up == upsert_n(s, existing.ids, label, props) IN
         IF up.err # "" THEN up ELSE collect_to_obj(up.s, up.ids)

\* ===================================================== handlers, build "main"
\* variant of UpsertUser whose existence scan filters on a property no User has
UpsertUser_wrong_filter(s, d) ==
    LET user == ScanUpsert(s, "User", "user_key", d.external_id,
                    [external_id |-> d.external_id, metadata |-> d.metadata])
    IN  IF user.err # "" THEN Fail(s, user.err)
        ELSE Return(user.s, Views(user.s, user.ids, {"external_id", "metadata"}))

UpsertUser(s, d) ==
    LET user == ScanUpsert(s, "User", "external_id", d.external_id,
                    [external_id |-> d.external_id, metadata |-> d.metadata])
    IN  IF user.err # "" THEN Fail(s, user.err)
        ELSE Return(user.s, Views(user.s, user.ids, {"external_id", "metadata"}))

UpsertTool(s, d) ==
    LET tool == IndexUpsert(s, "Tool", "canonical_name", d.canonical_name,
                    [canonical_name |-> d.canonical_name, category |-> d.category,
                     metadata |-> d.metadata])
    IN  IF tool.err # "" THEN Fail(s, tool.err)
        ELSE Return(tool.s, Views(tool.s, tool.ids,
                                  {"canonical_name", "category", "metadata"}))

UpsertConcept(s, d) ==
    LET concept == IndexUpsert(s, "Concept", "name", d.name,
                    [name |-> d.name, category |-> d.category,
                     relevance_score |-> d.relevance_score])
    IN  IF concept.err # "" THEN Fail(s, concept.err)
        ELSE Return(concept.s, Views(concept.s, concept.ids,
                                     {"name", "category", "relevance_score"}))

UpsertEntity(s, d) ==
    LET entity == IndexUpsert(s, "Entity", "name", d.name,
                    [name |-> d.name, entity_type |-> d.entity_type,
                     metadata |-> d.metadata])
    IN  IF entity.err # "" THEN Fail(s, entity.err)
        ELSE Return(entity.s, Views(entity.s, entity.ids,
                                    {"name", "entity_type", "metadata"}))

\* variant of UpsertTimelineNode whose existence scan keeps every TimelineNode
UpsertTimelineNode_no_filter(s, d) ==
    LET up   == upsert_n(s, n_from_type(s, "TimelineNode"), "TimelineNode",
                    [external_id |-> d.external_id, node_type |-> d.node_type,
                     title |-> d.title, metadata |-> d.metadata])
        node == IF up.err # "" THEN up ELSE collect_to_obj(up.s, up.ids)
    IN  IF node.err # "" THEN Fail(s, node.err)
        ELSE
        LET user == filter_ref(node.s, n_from_type(node.s, "User"),
                               "external_id", d.user_key)
            edge == add_edge_loop(node.s, "UserOwnsNode", <<>>, Pairs(user, node.ids))
        IN  IF edge.err # "" THEN Fail(s, edge.err)
            ELSE Return(edge.s, Views(node.s, node.ids,
                            {"external_id", "node_type", "title", "metadata"}))

UpsertTimelineNode(s, d) ==
    LET node == ScanUpsert(s, "TimelineNode", "external_id", d.external_id,
                    [external_id |-> d.external_id, node_type |-> d.node_type,
                     title |-> d.title, metadata |-> d.metadata])
    IN  IF node.err # "" THEN Fail(s, node.err)
        ELSE
        LET user == filter_ref(node.s, n_from_type(node.s, "User"),
                               "external_id", d.user_key)
            edge == add_edge_loop(node.s, "UserOwnsNode", <<>>, Pairs(user, node.ids))
        IN  IF edge.err # "" THEN Fail(s, edge.err)
            ELSE Return(edge.s, Views(node.s, node.ids,
                            {"external_id", "node_type", "title", "metadata"}))

\* variant of UpsertWorkflowPattern that matches the patterns of the category
\* the calling user is linked to
UpsertWorkflowPattern_per_user(s, d) ==
    LET user     == filter_ref(s, n_from_type(s, "User"), "external_id", d.user_id)
        existing == filter_ref(s, out_node(s, user, "UserHasPattern"),
                               "intent_category", d.intent_category)
        up       == upsert_n(s, existing, "WorkflowPattern",
                             [intent_category |-> d.intent_category,
                              occurrence_count |-> d.occurrence_count,
                              metadata |-> d.metadata])
        pattern  == IF up.err # "" THEN up ELSE collect_to_obj(up.s, up.ids)
    IN  IF pattern.err # "" THEN Fail(s, pattern.err)
        ELSE
        LET edge == add_edge_loop(pattern.s, "UserHasPattern", <<>>,
                                  Pairs(user, pattern.ids))
        IN  IF edge.err # "" THEN Fail(s, edge.err)
            ELSE Return(edge.s, Views(pattern.s, pattern.ids,
                            {"intent_category", "occurrence_count", "metadata"}))

UpsertWorkflowPattern(s, d) ==
    LET pattern == ScanUpsert(s, "WorkflowPattern", "intent_category",
                    d.intent_category,
                    [intent_category |-> d.intent_category,
                     occurrence_count |-> d.occurrence_count,
                     metadata |-> d.metadata])
    IN  IF pattern.err # "" THEN Fail(s, pattern.err)
        ELSE
        LET user == filter_ref(pattern.s, n_from_type(pattern.s, "User"),
                               "external_id", d.user_id)
            edge == add_edge_loop(pattern.s, "UserHasPattern", <<>>,
                                  Pairs(user, pattern.ids))
        IN  IF edge.err # "" THEN Fail(s, edge.err)
            ELSE Return(edge.s, Views(pattern.s, pattern.ids,
                            {"intent_category", "occurrence_count", "metadata"}))

SessionFields ==
    {"external_id", "start_time", "end_time", "duration_seconds",
     "screenshot_count", "workflow_primary", "workflow_secondary",
     "workflow_confidence", "metadata"}

UpsertSession(s, d) ==
    LET session == ScanUpsert(s, "Session", "external_id", d.external_id,
                    [f \in SessionFields |-> d[f]])
    IN  IF session.err # "" THEN Fail(s, session.err)
        ELSE
        LET user == filter_ref(session.s, n_from_type(session.s, "User"),
                               "external_id", d.user_key)
            edge == add_edge_loop(session.s, "UserOwnsSession", <<>>,
                                  Pairs(user, session.ids))
        IN  IF edge.err # "" THEN Fail(s, edge.err)
            ELSE Return(edge.s, Views(session.s, session.ids, SessionFields))

ActivityFields ==
    {"screenshot_external_id", "workflow_tag", "timestamp", "summary",
     "confidence", "metadata"}

\* variant of UpsertActivity that skips the existence scan: upsert_n over no
\* record inserts an Activity at every call
UpsertActivity_always_inserts(s, d) ==
    LET up       == upsert_n(s, <<>>, "Activity", [f \in ActivityFields |-> d[f]])
        activity == IF up.err # "" THEN up ELSE collect_to_obj(up.s, up.ids)
    IN  IF activity.err # "" THEN Fail(s, activity.err)
        ELSE Return(activity.s, Views(activity.s, activity.ids, ActivityFields))

UpsertActivity(s, d) ==
    LET activity == ScanUpsert(s, "Activity", "screenshot_external_id",
                    d.screenshot_external_id, [f \in ActivityFields |-> d[f]])
    IN  IF activity.err # "" THEN Fail(s, activity.err)
        ELSE Return(activity.s, Views(activity.s, activity.ids, ActivityFields))

LinkSessionToNode(s, d) ==
    LET session == filter_ref(s, n_from_type(s, "Session"),
                              "external_id", d.session_external_id)
        node    == filter_ref(s, n_from_type(s, "TimelineNode"),
                              "external_id", d.node_external_id)
        edge    == add_edge_loop(s, "SessionInNode", <<>>, Pairs(session, node))
    IN  IF edge.err # "" THEN Fail(s, edge.err) ELSE Return(edge.s, <<>>)

\* ---- the scanning handlers when the seed step fails on some records
\* an item of a traversal: Ok(record) or the Err the step before produced
\* for that record
Items(ids, failed) ==
    [i \in DOMAIN ids |-> [ok |-> ids[i] \notin failed, id |-> ids[i]]]

\* variant of the closure that passes the Err item on
filter_ref_closure_passing(s, item, f, value) ==
    IF item.ok THEN get_property(s, item.id, f) = <<value>> ELSE TRUE

\* the filter_ref closure of the handlers, on one item:
\*   if let Ok(val) = val { Ok(val.get_property(f).map_or(false, |v| *v == value)) }
\*   else { Ok(false) }
filter_ref_closure(s, item, f, value) ==
    IF item.ok THEN get_property(s, item.id, f) = <<value>> ELSE FALSE

\* filter_ref keeps the items its closure answers Ok(true) for
filter_ref_items(s, items, f, value) ==
    SelectSeq(items, LAMBDA item : filter_ref_closure(s, item, f, value))

\* .collect::<Result<Vec<_>, _>>()
collect(s, items) ==
    IF \E i \in DOMAIN items : ~items[i].ok THEN Err(s, "GraphError")
    ELSE Ok(s, [i \in DOMAIN items |-> items[i].id])

\* n_from_type(label).filter_ref(key == value).collect()?
Scan(s, label, key, value, failed) ==
    collect(s, filter_ref_items(s, Items(n_from_type(s, label), failed),
                                key, value))

UpsertUser_scan(s, d, failed) ==
    LET existing == Scan(s, "User", "external_id", d.external_id, failed) IN
    IF existing.err # "" THEN Fail(s, existing.err)
    ELSE LET up == upsert_n(s, existing.ids, "User",
                     [external_id |-> d.external_id, metadata |-> d.metadata])
         IN  IF up.err # "" THEN Fail(s, up.err)
             ELSE Return(up.s, Views(up.s, <<Head(up.ids)>>,
                                     {"external_id", "metadata"}))

LinkSessionToNode_scan(s, d, failed) ==
    LET session == Scan(s, "Session", "external_id", d.session_external_id,
                        failed)
    IN  IF session.err # "" THEN Fail(s, session.err)
        ELSE
        LET node == Scan(s, "TimelineNode", "external_id", d.node_external_id,
                         failed)
        IN  IF node.err # "" THEN Fail(s, node.err)
            ELSE LET edge == add_edge_loop(s, "SessionInNode", <<>>,
                                           Pairs(session.ids, node.ids))
                 IN  IF edge.err # "" THEN Fail(s, edge.err)
                     ELSE Return(edge.s, <<>>)

LinkActivityToSession(s, d) ==
    LET activity == filter_ref(s, n_from_type(s, "Activity"),
                               "screenshot_external_id", d.screenshot_external_id)
        session  == filter_ref(s, n_from_type(s, "Session"),
                               "external_id", d.session_external_id)
        edge     == add_edge_loop(s, "ActivityInSession", <<>>,
                                  Pairs(activity, session))
    IN  IF edge.err # "" THEN Fail(s, edge.err) ELSE Return(edge.s, <<>>)

LinkActivityToConcept(s, d) ==
    LET activity == filter_ref(s, n_from_type(s, "Activity"),
                               "screenshot_external_id", d.screenshot_external_id)
        concept  == collect_to_obj(s, n_from_index(s, "Concept", "name",
                                                   d.concept_name))
    IN  IF concept.err # "" THEN Fail(s, concept.err)
        ELSE LET edge == add_edge_loop(s, "ActivityRelatedToConcept", <<>>,
                                       Pairs(activity, concept.ids))
             IN  IF edge.err # "" THEN Fail(s, edge.err)
                 ELSE Return(edge.s, <<>>)

LinkActivityToEntity(s, d) ==
    LET activity == filter_ref(s, n_from_type(s, "Activity"),
                               "screenshot_external_id", d.screenshot_external_id)
        entity   == collect_to_obj(s, n_from_index(s, "Entity", "name",
                                                   d.entity_name))
    IN  IF entity.err # "" THEN Fail(s, entity.err)
        ELSE LET edge == add_edge_loop(s, "ActivityMentionsEntity", <<>>,
                                       Pairs(activity, entity.ids))
             IN  IF edge.err # "" THEN Fail(s, edge.err)
                 ELSE Return(edge.s, <<>>)

GetConceptsByCategory(s, d) ==
    LET concepts == filter_ref(s, n_from_type(s, "Concept"), "category", d.category)
    IN  Return(s, Views(s, concepts, {"name", "category", "relevance_score"}))

HealthCheck(s, d) == Return(s, <<[data |-> "OK"]>>)

GetSessionsByNode(s, d) ==
    LET nodes    == filter_ref(s, n_from_type(s, "TimelineNode"),
                               "external_id", d.node_key)
        sessions == in_node(s, nodes, "SessionInNode")
    IN  Return(s, Views(s, sessions, SessionFields))

GetUserByExternalId(s, d) ==
    LET user == filter_ref(s, n_from_type(s, "User"), "external_id", d.external_id)
    IN  Return(s, Views(s, user, {"external_id", "metadata"}))

\* the three expansions chained in the traversal of GetCrossSessionConcepts
GetCrossSessionConcepts_sessions(s, users) ==
    out_node(s, users, "UserOwnsSession")

GetCrossSessionConcepts_activities(s, sessions) ==
    in_node(s, sessions, "ActivityInSession")

GetCrossSessionConcepts_concepts(s, activities) ==
    out_node(s, activities, "ActivityRelatedToConcept")

GetCrossSessionConcepts(s, d) ==
    LET users      == filter_ref(s, n_from_type(s, "User"), "external_id", d.user_key)
        sessions   == GetCrossSessionConcepts_sessions(s, users)
        activities == GetCrossSessionConcepts_activities(s, sessions)
        concepts   == GetCrossSessionConcepts_concepts(s, activities)
    IN  Return(s, Views(s, concepts, {"name", "category", "relevance_score"}))

\* ====================================================== handlers, build "dev"
EdgeView(s, e) ==
    [id |-> e, label |-> s.edges[e].label,
     from_node |-> s.edges[e].from, to_node |-> s.edges[e].to]

UpsertUser_dev(s, d) ==
    LET user == ScanUpsert(s, "User", "external_id", d.external_id,
                    [external_id |-> d.external_id, created_at |-> d.created_at,
                     metadata |-> d.metadata])
    IN  IF user.err # "" THEN Fail(s, user.err)
        ELSE Return(user.s, Views(user.s, user.ids,
                                  {"metadata", "external_id", "created_at"}))

TimelineNodeFields_dev ==
    {"external_id", "user_key", "node_type", "title", "created_at", "metadata"}

UpsertTimelineNode_dev(s, d) ==
    LET node == ScanUpsert(s, "TimelineNode", "external_id", d.external_id,
                    [f \in TimelineNodeFields_dev |-> d[f]])
    IN  IF node.err # "" THEN Fail(s, node.err)
        ELSE Return(node.s, Views(node.s, node.ids, TimelineNodeFields_dev))

WorkflowPatternFields_dev ==
    {"user_id", "intent_category", "occurrence_count", "last_seen_at", "metadata"}

UpsertWorkflowPattern_dev(s, d) ==
    LET existing == filter_ref(s,
                        filter_ref(s, n_from_type(s, "WorkflowPattern"),
                                   "user_id", d.user_id),
                        "intent_category", d.intent_category)
        up       == upsert_n(s, existing, "WorkflowPattern",
                             [f \in WorkflowPatternFields_dev |-> d[f]])
        pattern  == IF up.err # "" THEN up ELSE collect_to_obj(up.s, up.ids)
    IN  IF pattern.err # "" THEN Fail(s, pattern.err)
        ELSE Return(pattern.s, Views(pattern.s, pattern.ids,
                                     WorkflowPatternFields_dev))

SessionFields_dev ==
    {"external_id", "user_key", "node_key", "start_time", "end_time",
     "duration_seconds", "screenshot_count", "workflow_primary",
     "workflow_secondary", "workflow_confidence", "metadata"}

UpsertSession_dev(s, d) ==
    LET session == ScanUpsert(s, "Session", "external_id", d.external_id,
                    [f \in SessionFields_dev |-> d[f]])
    IN  IF session.err # "" THEN Fail(s, session.err)
        ELSE Return(session.s, Views(session.s, session.ids, SessionFields_dev))

UpsertTool_dev(s, d) ==
    LET tool == ScanUpsert(s, "Tool", "canonical_name", d.canonical_name,
                    [canonical_name |-> d.canonical_name, category |-> d.category,
                     metadata |-> d.metadata])
    IN  IF tool.err # "" THEN Fail(s, tool.err)
        ELSE Return(tool.s, Views(tool.s, tool.ids,
                                  {"canonical_name", "category", "metadata"}))

BlockFields_dev ==
    {"user_id", "canonical_slug", "intent_label", "primary_tool",
     "occurrence_count", "metadata"}

UpsertBlock_dev(s, d) ==
    LET block == ScanUpsert(s, "Block", "canonical_slug", d.canonical_slug,
                    [f \in BlockFields_dev |-> d[f]])
    IN  IF block.err # "" THEN Fail(s, block.err)
        ELSE Return(block.s, Views(block.s, block.ids, BlockFields_dev))

UpsertConcept_dev(s, d) ==
    LET concept == ScanUpsert(s, "Concept", "name", d.name,
                    [name |-> d.name, category |-> d.category,
                     relevance_score |-> d.relevance_score])
    IN  IF concept.err # "" THEN Fail(s, concept.err)
        ELSE Return(concept.s, Views(concept.s, concept.ids,
                                     {"category", "relevance_score", "name"}))

\* variant of UpsertEntity that counts the call when the Entity exists
UpsertEntity_counting(s, d) ==
    LET existing == filter_ref(s, n_from_type(s, "Entity"), "name", d.name)
        entity   == ScanUpsert(s, "Entity", "name", d.name,
                    [name |-> d.name, entity_type |-> d.entity_type,
                     frequency |-> IF existing = <<>> THEN "1" ELSE "2",
                     metadata |-> d.metadata])
    IN  IF entity.err # "" THEN Fail(s, entity.err)
        ELSE Return(entity.s, Views(entity.s, entity.ids,
                            {"metadata", "frequency", "name", "entity_type"}))

UpsertEntity_dev(s, d) ==
    LET entity == ScanUpsert(s, "Entity", "name", d.name,
                    [name |-> d.name, entity_type |-> d.entity_type,
                     frequency |-> "1", metadata |-> d.metadata])
    IN  IF entity.err # "" THEN Fail(s, entity.err)
        ELSE Return(entity.s, Views(entity.s, entity.ids,
                            {"metadata", "frequency", "name", "entity_type"}))

ActivityFields_dev ==
    {"session_key", "screenshot_external_id", "workflow_tag", "timestamp",
     "summary", "confidence", "metadata"}

UpsertActivity_dev(s, d) ==
    LET activity == ScanUpsert(s, "Activity", "screenshot_external_id",
                    d.screenshot_external_id, [f \in ActivityFields_dev |-> d[f]])
    IN  IF activity.err # "" THEN Fail(s, activity.err)
        ELSE Return(activity.s, Views(activity.s, activity.ids, ActivityFields_dev))

StepFields_dev ==
    {"session_id", "action_type", "metadata", "timestamp", "order_in_block"}

\* variant of CreateStep that lists session_id alone
CreateStep_session_only(s, d) ==
    LET step == add_n_unique(s, "Step", [f \in StepFields_dev |-> d[f]],
                             {"session_id"})
    IN  IF step.err # "" THEN Fail(s, step.err)
        ELSE Return(step.s, Views(step.s, step.ids, StepFields_dev))

CreateStep_dev(s, d) ==
    LET step == add_n_unique(s, "Step", [f \in StepFields_dev |-> d[f]],
                             {"session_id", "action_type"})
    IN  IF step.err # "" THEN Fail(s, step.err)
        ELSE Return(step.s, Views(step.s, step.ids, StepFields_dev))

LinkBlockToTool_dev(s, d) ==
    LET block == collect_to_obj(s, n_from_index(s, "Block", "canonical_slug",
                                                d.block_slug))
    IN  IF block.err # "" THEN Fail(s, block.err)
        ELSE
        LET tool == collect_to_obj(s, n_from_index(s, "Tool", "canonical_name",
                                                   d.tool_name))
        IN  IF tool.err # "" THEN Fail(s, tool.err)
            ELSE LET edge == add_edge(s, "BlockUsesTool", <<>>,
                                      block.ids[1], tool.ids[1])
                 IN  IF edge.err # "" THEN Fail(s, edge.err)
                     ELSE Return(edge.s, <<EdgeView(edge.s, edge.ids[1])>>)

LinkActivityToConcept_dev(s, d) ==
    LET activity == collect_to_obj(s, n_from_index(s, "Activity",
                        "screenshot_external_id", d.screenshot_external_id))
    IN  IF activity.err # "" THEN Fail(s, activity.err)
        ELSE
        LET concept == collect_to_obj(s, n_from_index(s, "Concept", "name",
                                                      d.concept_name))
        IN  IF concept.err # "" THEN Fail(s, concept.err)
            ELSE LET edge == add_edge(s, "RelatesTo", [relevance |-> d.relevance],
                                      activity.ids[1], concept.ids[1])
                 IN  IF edge.err # "" THEN Fail(s, edge.err)
                     ELSE Return(edge.s, <<EdgeView(edge.s, edge.ids[1])>>)

\* variant of GetUserByExternalId that reads the index of another type
GetUserByExternalId_other_type(s, d) ==
    LET user == collect_to_obj(s, n_from_index(s, "TimelineNode", "external_id",
                                               d.external_id))
    IN  IF user.err # "" THEN Fail(s, user.err)
        ELSE Return(s, Views(s, user.ids, {"metadata", "external_id", "created_at"}))

GetUserByExternalId_dev(s, d) ==
    LET user == collect_to_obj(s, n_from_index(s, "User", "external_id",
                                               d.external_id))
    IN  IF user.err # "" THEN Fail(s, user.err)
        ELSE Return(s, Views(s, user.ids, {"metadata", "external_id", "created_at"}))

\* variant of GetToolByName that scans and returns what it finds
GetToolByName_scan(s, d) ==
    Return(s, Views(s, filter_ref(s, n_from_type(s, "Tool"), "canonical_name",
                                  d.canonical_name),
                    {"canonical_name", "category", "metadata"}))

GetToolByName_dev(s, d) ==
    LET tool == collect_to_obj(s, n_from_index(s, "Tool", "canonical_name",
                                               d.canonical_name))
    IN  IF tool.err # "" THEN Fail(s, tool.err)
        ELSE Return(s, Views(s, tool.ids, {"canonical_name", "category", "metadata"}))

\* variant of GetSessionsByUser that slices before it sorts
GetSessionsByUser_range_first(s, d) ==
    {Return(s, Views(s, sessions, SessionFields_dev)) :
        sessions \in
            order_by_desc(s,
                range(filter_ref(s, n_from_type(s, "Session"),
                                 "user_key", d.user_key),
                      d.start, d.end_range),
                "start_time")}

\* the responses GetSessionsByUser can give: one for each outcome of the sort
GetSessionsByUser_dev(s, d) ==
    {Return(s, Views(s, range(sessions, d.start, d.end_range),
                     SessionFields_dev)) :
        sessions \in
            order_by_desc(s, filter_ref(s, n_from_type(s, "Session"),
                                        "user_key", d.user_key),
                          "start_time")}

\* variant of SearchSimilarConcepts that names another collection
SearchSimilarConcepts_other_collection(s, d) ==
    Return(s, VectorViews(s, search_v(s, d.query_embedding, d.limit,
                                      "SessionEmbedding"),
                          d.query_embedding))

SearchSimilarConcepts_dev(s, d) ==
    Return(s, VectorViews(s, search_v(s, d.query_embedding, d.limit,
                                      "ConceptEmbedding"),
                          d.query_embedding))

SearchSimilarSessions_dev(s, d) ==
    Return(s, VectorViews(s, search_v(s, d.query_embedding, d.limit,
                                      "SessionEmbedding"),
                          d.query_embedding))

\* the three traversals of GetConceptConnections; each names the store its
\* G::new / G::from_iter reads through the handler's transaction
GetConceptConnections_concept(s, d) ==
    collect_to_obj(s, n_from_index(s, "Concept", "name", d.concept_name))

\* variant of the second traversal that expands outward
GetConceptConnections_activities_out(s, concept) ==
    out_node(s, concept, "RelatesTo")

GetConceptConnections_activities(s, concept) == in_node(s, concept, "RelatesTo")

GetConceptConnections_sessions(s, activities) ==
    out_node(s, activities, "ActivityInSession")

GetConceptConnections_dev(s, d) ==
    LET concept == GetConceptConnections_concept(s, d) IN
    IF concept.err # "" THEN Fail(s, concept.err)
    ELSE LET activities == GetConceptConnections_activities(s, concept.ids)
             sessions   == GetConceptConnections_sessions(s, activities)
         IN  Return(s, Views(s, sessions, SessionFields_dev))

\* the three traversals of GetCrossSessionContext
GetCrossSessionContext_sessions(s, d) ==
    filter_ref(s, n_from_type(s, "Session"), "user_key", d.user_key)

GetCrossSessionContext_activities(s, sessions) ==
    in_node(s, sessions, "ActivityInSession")

GetCrossSessionContext_entities(s, activities) == out_node(s, activities, "Uses")

GetCrossSessionContext_dev(s, d) ==
    LET sessions   == GetCrossSessionContext_sessions(s, d)
        activities == GetCrossSessionContext_activities(s, sessions)
        entities   == GetCrossSessionContext_entities(s, activities)
    IN  Return(s, Views(s, entities,
                        {"metadata", "frequency", "name", "entity_type"}))

\* =================================================================== inputs
\* deserialized request bodies; the fields that only pass through to the
\* record take one value each
UpsertUserInput == [external_id : Keys, metadata : Metas]
UpsertUserInput_dev == [external_id : Keys, created_at : {"t1"}, metadata : Metas]
UpsertToolInput == [canonical_name : Keys, category : {"c1"}, metadata : {"m1"}]
UpsertConceptInput == [name : Keys, category : {"c1"}, relevance_score : {"r1"}]
UpsertEntityInput == [name : Keys, entity_type : {"e1"}, metadata : {"m1"}]
UpsertTimelineNodeInput ==
    [external_id : Keys, user_key : Keys, node_type : {"n1"}, title : {"ti1"},
     metadata : Metas]
UpsertTimelineNodeInput_dev ==
    [external_id : Keys, user_key : Keys, node_type : {"n1"}, title : {"ti1"},
     created_at : {"t1"}, metadata : Metas]
UpsertWorkflowPatternInput ==
    [user_id : Keys, intent_category : Keys, occurrence_count : {"1"},
     metadata : Metas]
UpsertWorkflowPatternInput_dev ==
    [user_id : Keys, intent_category : Keys, occurrence_count : {"1"},
     last_seen_at : {"t1"}, metadata : Metas]
UpsertSessionInput ==
    [external_id : Keys, user_key : Keys, node_key : {"k1"}, start_time : {"t1"},
     end_time : {"t2"}, duration_seconds : {"1"}, screenshot_count : {"1"},
     workflow_primary : {"w1"}, workflow_secondary : {"w2"},
     workflow_confidence : {"r1"}, metadata : {"m1"}]
UpsertActivityInput ==
    [session_key : {"k1"}, screenshot_external_id : Keys, workflow_tag : {"w1"},
     timestamp : {"t1"}, summary : {"s1"}, confidence : {"r1"}, metadata : {"m1"}]
UpsertBlockInput_dev ==
    [user_id : {"k1"}, canonical_slug : Keys, intent_label : {"i1"},
     primary_tool : {"k1"}, occurrence_count : {"1"}, metadata : {"m1"}]
CreateStepInput_dev ==
    [session_id : Keys, action_type : Keys, order_in_block : {"1"},
     timestamp : {"t1"}, metadata : {"m1"}]
UpsertSessionInput_dev ==
    [external_id : Keys, user_key : Keys, node_key : {"k1"}, start_time : Times,
     end_time : {"t2"}, duration_seconds : {"1"}, screenshot_count : {"1"},
     workflow_primary : {"w1"}, workflow_secondary : {"w2"},
     workflow_confidence : {"r1"}, metadata : {"m1"}]
\* start and end_range are u32; requests ask for start <= end_range
GetSessionsByUserInput_dev ==
    {d \in [user_key : {"k1"}, start : 0 .. MaxRange, end_range : 0 .. MaxRange] :
        d.start <= d.end_range}
SearchSimilarInput_dev == [query_embedding : Embeddings, limit : 0 .. MaxK]
LinkSessionToNodeInput == [session_external_id : Keys, node_external_id : Keys]
LinkActivityToSessionInput ==
    [screenshot_external_id : Keys, session_external_id : Keys]
LinkActivityToConceptInput ==
    [screenshot_external_id : Keys, concept_name : Keys, relevance : {"r1"}]
LinkBlockToToolInput == [block_slug : Keys, tool_name : Keys]
GetUserByExternalIdInput == [external_id : Keys]
GetToolByNameInput_dev == [canonical_name : Keys]
LinkActivityToEntityInput ==
    [screenshot_external_id : Keys, entity_name : Keys, context : {"c1"}]
GetSessionsByNodeInput == [node_key : Keys]
GetCrossSessionConceptsInput == [user_key : Keys]
GetConceptConnectionsInput == [concept_name : Keys]
GetCrossSessionContextInput == [user_key : Keys]

\* ================================================ requests served one by one
\* again: the request repeats the handler and input of the response before it
NoResp == [h |-> "", d |-> <<>>, err |-> "", out |-> <<>>, again |-> FALSE]

Response(h, d, r) ==
    [h |-> h, d |-> d, err |-> r.err, out |-> r.out,
     again |-> resp.h = h /\ resp.d = d /\ resp.err = ""]
Idle   == [h |-> "", d |-> <<>>]

InBounds(s) == Len(s.nodes) <= MaxNodes /\ Len(s.edges) <= MaxEdges

\* a write handler run to its return while no other request is in flight:
\* write_txn(), the body, txn.commit() on Ok; a `?` drops the transaction
Write(b, h, d, r) ==
    /\ build = b
    /\ writer = 0
    /\ \A p \in Procs : pc[p] = "idle"
    /\ InBounds(r.s)
    /\ db' = IF r.err = "" THEN r.s ELSE db
    /\ resp' = Response(h, d, r)
    /\ UNCHANGED <<build, writer, pc, req, txn, loc>>

\* a read handler run to its return: read_txn(), the body, the response
Read(b, h, d, r) ==
    /\ build = b
    /\ \A p \in Procs : pc[p] = "idle"
    /\ resp' = Response(h, d, r)
    /\ UNCHANGED <<build, db, writer, pc, req, txn, loc>>

UpsertUserReq ==
    \E d \in UpsertUserInput : Write("main", "UpsertUser", d, UpsertUser(db, d))
UpsertToolReq ==
    \E d \in UpsertToolInput : Write("main", "UpsertTool", d, UpsertTool(db, d))
UpsertConceptReq ==
    \E d \in UpsertConceptInput :
        Write("main", "UpsertConcept", d, UpsertConcept(db, d))
UpsertEntityReq ==
    \E d \in UpsertEntityInput :
        Write("main", "UpsertEntity", d, UpsertEntity(db, d))
UpsertTimelineNodeReq ==
    \E d \in UpsertTimelineNodeInput :
        Write("main", "UpsertTimelineNode", d, UpsertTimelineNode(db, d))
UpsertWorkflowPatternReq ==
    \E d \in UpsertWorkflowPatternInput :
        Write("main", "UpsertWorkflowPattern", d, UpsertWorkflowPattern(db, d))
UpsertSessionReq ==
    \E d \in UpsertSessionInput :
        Write("main", "UpsertSession", d, UpsertSession(db, d))
UpsertActivityReq ==
    \E d \in UpsertActivityInput :
        Write("main", "UpsertActivity", d, UpsertActivity(db, d))
LinkSessionToNodeReq ==
    \E d \in LinkSessionToNodeInput :
        Write("main", "LinkSessionToNode", d, LinkSessionToNode(db, d))
LinkActivityToSessionReq ==
    \E d \in LinkActivityToSessionInput :
        Write("main", "LinkActivityToSession", d, LinkActivityToSession(db, d))
LinkActivityToConceptReq ==
    \E d \in LinkActivityToConceptInput :
        Write("main", "LinkActivityToConcept", d, LinkActivityToConcept(db, d))
GetUserByExternalIdReq ==
    \E d \in GetUserByExternalIdInput :
        Read("main", "GetUserByExternalId", d, GetUserByExternalId(db, d))
GetCrossSessionConceptsReq ==
    \E d \in GetCrossSessionConceptsInput :
        Read("main", "GetCrossSessionConcepts", d, GetCrossSessionConcepts(db, d))

UpsertUserReq_dev ==
    \E d \in UpsertUserInput_dev :
        Write("dev", "UpsertUser", d, UpsertUser_dev(db, d))
UpsertTimelineNodeReq_dev ==
    \E d \in UpsertTimelineNodeInput_dev :
        Write("dev", "UpsertTimelineNode", d, UpsertTimelineNode_dev(db, d))
UpsertWorkflowPatternReq_dev ==
    \E d \in UpsertWorkflowPatternInput_dev :
        Write("dev", "UpsertWorkflowPattern", d, UpsertWorkflowPattern_dev(db, d))
UpsertSessionReq_dev ==
    \E d \in UpsertSessionInput :
        Write("dev", "UpsertSession", d, UpsertSession_dev(db, d))
UpsertToolReq_dev ==
    \E d \in UpsertToolInput : Write("dev", "UpsertTool", d, UpsertTool_dev(db, d))
UpsertBlockReq_dev ==
    \E d \in UpsertBlockInput_dev :
        Write("dev", "UpsertBlock", d, UpsertBlock_dev(db, d))
UpsertConceptReq_dev ==
    \E d \in UpsertConceptInput :
        Write("dev", "UpsertConcept", d, UpsertConcept_dev(db, d))
UpsertActivityReq_dev ==
    \E d \in UpsertActivityInput :
        Write("dev", "UpsertActivity", d, UpsertActivity_dev(db, d))
CreateStepReq_dev ==
    \E d \in CreateStepInput_dev :
        Write("dev", "CreateStep", d, CreateStep_dev(db, d))
LinkBlockToToolReq_dev ==
    \E d \in LinkBlockToToolInput :
        Write("dev", "LinkBlockToTool", d, LinkBlockToTool_dev(db, d))
LinkActivityToConceptReq_dev ==
    \E d \in LinkActivityToConceptInput :
        Write("dev", "LinkActivityToConcept", d, LinkActivityToConcept_dev(db, d))
GetUserByExternalIdReq_dev ==
    \E d \in GetUserByExternalIdInput :
        Read("dev", "GetUserByExternalId", d, GetUserByExternalId_dev(db, d))
GetToolByNameReq_dev ==
    \E d \in GetToolByNameInput_dev :
        Read("dev", "GetToolByName", d, GetToolByName_dev(db, d))
GetConceptConnectionsReq_dev ==
    \E d \in GetConceptConnectionsInput :
        Read("dev", "GetConceptConnections", d, GetConceptConnections_dev(db, d))

UpsertSessionAtReq_dev ==
    \E d \in UpsertSessionInput_dev :
        Write("dev", "UpsertSession", d, UpsertSession_dev(db, d))
GetSessionsByUserReq_dev ==
    \E d \in GetSessionsByUserInput_dev :
        \E r \in GetSessionsByUser_dev(db, d) :
            Read("dev", "GetSessionsByUser", d, r)

SearchSimilarConceptsReq_dev ==
    \E d \in SearchSimilarInput_dev :
        Read("dev", "SearchSimilarConcepts", d, SearchSimilarConcepts_dev(db, d))
SearchSimilarSessionsReq_dev ==
    \E d \in SearchSimilarInput_dev :
        Read("dev", "SearchSimilarSessions", d, SearchSimilarSessions_dev(db, d))

\* add-node called directly on the engine by a caller other than these
\* handlers (records "inserted out-of-band"); some carry a property the
\* handlers never write
InsertNodeInput ==
    {[label |-> l, props |-> [external_id |-> k, legacy |-> "x"]] :
        l \in {"User", "TimelineNode"}, k \in Keys}
    \cup {[label |-> "WorkflowPattern",
           props |-> [user_id |-> u, intent_category |-> c]] :
            u \in {"k1"}, c \in Keys}

InsertNode(s, i) ==
    LET n == add_n(s, i.label, i.props) IN
    IF n.err # "" THEN Fail(s, n.err)
    ELSE Return(n.s, Views(n.s, n.ids, DOMAIN i.props))

\* ============================================== requests served concurrently
\* each process is a worker serving one request at a time; pc is its place in
\* the handler: "idle", "commit" for a write handler holding its transaction
\* before txn.commit(), "t1" "t2" "t3" for the three traversals of a read
\* handler
WriteHandlers ==
    {"UpsertUser", "UpsertSession", "UpsertTimelineNode", "LinkSessionToNode",
     "UpsertConcept", "UpsertActivity", "LinkActivityToConcept"}
ReadHandlers == {"GetConceptConnections", "GetCrossSessionContext"}

\* the requests in flight: one key per type
Requests(b) ==
    IF b = "main"
    THEN {[h |-> "UpsertUser", d |-> d] :
             d \in {x \in UpsertUserInput : x.external_id = "k1"}}
         \cup {[h |-> "UpsertSession", d |-> d] :
             d \in {x \in UpsertSessionInput :
                       x.external_id = "k1" /\ x.user_key = "k1"}}
         \cup {[h |-> "UpsertTimelineNode", d |-> d] :
             d \in {x \in UpsertTimelineNodeInput :
                       x.external_id = "k1" /\ x.user_key = "k1"
                       /\ x.metadata = "m1"}}
         \cup {[h |-> "LinkSessionToNode", d |-> d] :
             d \in {x \in LinkSessionToNodeInput :
                       x.session_external_id = "k1" /\ x.node_external_id = "k1"}}
    ELSE {[h |-> "UpsertConcept", d |-> d] :
             d \in {x \in UpsertConceptInput : x.name = "k1"}}
         \cup {[h |-> "UpsertActivity", d |-> d] :
             d \in {x \in UpsertActivityInput : x.screenshot_external_id = "k1"}}
         \cup {[h |-> "UpsertSession", d |-> d] :
             d \in {x \in UpsertSessionInput :
                       x.external_id = "k1" /\ x.user_key = "k1"}}
         \cup {[h |-> "LinkActivityToConcept", d |-> d] :
             d \in {x \in LinkActivityToConceptInput :
                       x.screenshot_external_id = "k1" /\ x.concept_name = "k1"}}
         \cup {[h |-> "GetConceptConnections", d |-> d] :
             d \in {x \in GetConceptConnectionsInput : x.concept_name = "k1"}}
         \cup {[h |-> "GetCrossSessionContext", d |-> d] :
             d \in {x \in GetCrossSessionContextInput : x.user_key = "k1"}}

\* the body of a write handler between write_txn() and commit()
WriteBody(b, h, s, d) ==
    CASE b = "main" /\ h = "UpsertUser"         -> UpsertUser(s, d)
      [] b = "main" /\ h = "UpsertSession"      -> UpsertSession(s, d)
      [] b = "main" /\ h = "UpsertTimelineNode" -> UpsertTimelineNode(s, d)
      [] b = "main" /\ h = "LinkSessionToNode"  -> LinkSessionToNode(s, d)
      [] b = "dev" /\ h = "UpsertConcept"       -> UpsertConcept_dev(s, d)
      [] b = "dev" /\ h = "UpsertActivity"      -> UpsertActivity_dev(s, d)
      [] b = "dev" /\ h = "UpsertSession"       -> UpsertSession_dev(s, d)
      [] b = "dev" /\ h = "LinkActivityToConcept"
                                                -> LinkActivityToConcept_dev(s, d)

\* the k-th traversal of a read handler over the store s
Traversal(h, k, s, d, l) ==
    CASE h = "GetConceptConnections" /\ k = 1 -> GetConceptConnections_concept(s, d)
      [] h = "GetConceptConnections" /\ k = 2 ->
            Ok(s, GetConceptConnections_activities(s, l[1]))
      [] h = "GetConceptConnections" /\ k = 3 ->
            Ok(s, GetConceptConnections_sessions(s, l[2]))
      [] h = "GetCrossSessionContext" /\ k = 1 ->
            Ok(s, GetCrossSessionContext_sessions(s, d))
      [] h = "GetCrossSessionContext" /\ k = 2 ->
            Ok(s, GetCrossSessionContext_activities(s, l[1]))
      [] h = "GetCrossSessionContext" /\ k = 3 ->
            Ok(s, GetCrossSessionContext_entities(s, l[2]))

ReturnFields(h) ==
    IF h = "GetConceptConnections" THEN SessionFields_dev
    ELSE {"metadata", "frequency", "name", "entity_type"}

\* the reads and mutations of a write handler, through its transaction
Body(p, r) ==
    LET w == WriteBody(build, r.h, db, r.d) IN
    /\ InBounds(w.s)
    /\ req' = [req EXCEPT ![p] = r]
    /\ txn' = [txn EXCEPT ![p] = w.s]
    /\ loc' = [loc EXCEPT ![p] = [err |-> w.err, out |-> w.out]]

\* variant of write_txn that is granted while a write transaction is open
write_txn_unlocked(p) ==
    /\ pc[p] = "idle"
    /\ writer' = p
    /\ \E r \in Requests(build) : r.h \in WriteHandlers /\ Body(p, r)
    /\ pc' = [pc EXCEPT ![p] = "commit"]
    /\ UNCHANGED <<build, db, resp>>

\* a write handler is entered with a request, returns from
\* db.graph_env.write_txn(), granted when no write transaction is open, with
\* the committed store, and runs up to its commit
write_txn(p) ==
    /\ pc[p] = "idle"
    /\ writer = 0
    /\ writer' = p
    /\ \E r \in Requests(build) : r.h \in WriteHandlers /\ Body(p, r)
    /\ pc' = [pc EXCEPT ![p] = "commit"]
    /\ UNCHANGED <<build, db, resp>>

\* txn.commit() and the response; after a `?` the transaction is dropped
Commit(p) ==
    /\ pc[p] = "commit"
    /\ db' = IF loc[p].err = "" THEN txn[p] ELSE db
    /\ resp' = Response(req[p].h, req[p].d, loc[p])
    /\ writer' = IF writer = p THEN 0 ELSE writer
    /\ pc' = [pc EXCEPT ![p] = "idle"]
    /\ req' = [req EXCEPT ![p] = Idle]
    /\ txn' = [txn EXCEPT ![p] = EmptyStore]
    /\ loc' = [loc EXCEPT ![p] = <<>>]
    /\ UNCHANGED build

\* a read handler is entered with a request and returns from
\* db.graph_env.read_txn(): a snapshot of the committed store
read_txn(p) ==
    /\ pc[p] = "idle" /\ p \in Readers
    /\ \E r \in Requests(build) :
          r.h \in ReadHandlers /\ req' = [req EXCEPT ![p] = r]
    /\ txn' = [txn EXCEPT ![p] = db]
    /\ pc' = [pc EXCEPT ![p] = "t1"]
    /\ UNCHANGED <<build, db, resp, writer, loc>>

\* variant of G_new that reads the committed store of the moment
G_new_live(p) == db

\* G::new(&db, &txn, &arena) / G::from_iter(&db, &txn, ...): the store a
\* traversal of the handler reads
G_new(p) == txn[p]

\* one `let ... = G::...collect()?` of a read handler; the last one builds
\* the response
Traverse(p, k) ==
    /\ pc[p] = <<"t1", "t2", "t3">>[k]
    /\ LET r == Traversal(req[p].h, k, G_new(p), req[p].d, loc[p]) IN
        IF r.err # "" \/ k = 3
        THEN /\ resp' = Response(req[p].h, req[p].d,
                          IF r.err # "" THEN Fail(db, r.err)
                          ELSE Return(db, Views(G_new(p), r.ids,
                                                ReturnFields(req[p].h))))
             /\ pc' = [pc EXCEPT ![p] = "idle"]
             /\ req' = [req EXCEPT ![p] = Idle]
             /\ txn' = [txn EXCEPT ![p] = EmptyStore]
             /\ loc' = [loc EXCEPT ![p] = <<>>]
        ELSE /\ loc' = [loc EXCEPT ![p] = Append(@, r.ids)]
             /\ pc' = [pc EXCEPT ![p] = <<"t2", "t3">>[k]]
             /\ UNCHANGED <<resp, req, txn>>
    /\ UNCHANGED <<build, db, writer>>

\* Sessions inserted out-of-band, without a start_time
InsertSessionInput ==
    {[label |-> "Session", props |-> [external_id |-> k, user_key |-> "k1"]] :
        k \in Keys}

InsertSessionReq ==
    \E i \in InsertSessionInput : Write("dev", "add_n", i, InsertNode(db, i))

\* Concepts inserted out-of-band: UpsertConcept of build "main" creates none
InsertConceptInput ==
    {[label |-> "Concept", props |-> [name |-> k, category |-> "c1"]] : k \in Keys}

InsertConceptReq ==
    \E i \in InsertConceptInput : Write("main", "add_n", i, InsertNode(db, i))

\* UpsertUser and LinkSessionToNode served while the seed step fails on the
\* records `failed`: none of them, or one
Failing(s) == {{}} \cup {{id} : id \in NodeIds(s)}

UpsertUserScanReq ==
    \E d \in UpsertUserInput, failed \in Failing(db) :
        Write("main", "UpsertUser", [data |-> d, failed |-> failed],
              UpsertUser_scan(db, d, failed))

LinkSessionToNodeScanReq ==
    \E d \in LinkSessionToNodeInput, failed \in Failing(db) :
        Write("main", "LinkSessionToNode", [data |-> d, failed |-> failed],
              LinkSessionToNode_scan(db, d, failed))

\* CreateStep requests that also differ in the fields outside the list
CreateStepInput_any_dev ==
    [session_id : Keys, action_type : Keys, order_in_block : {"1"},
     timestamp : Times, metadata : Metas]

CreateStepAnyReq_dev ==
    \E d \in CreateStepInput_any_dev :
        Write("dev", "CreateStep", d, CreateStep_dev(db, d))

\* Entities and Concepts of one name inserted out-of-band: UpsertEntity and
\* UpsertConcept of build "main" create none
InsertNamedInput ==
    {[label |-> l, props |-> [name |-> "k1"]] : l \in {"Entity", "Concept"}}

\* insert-vector called directly on the engine: no handler inserts a vector
InsertVectorInput ==
    [label : {"ConceptEmbedding", "SessionEmbedding"}, data : Embeddings]

InsertVector(s, i) ==
    Return([s EXCEPT !.vectors = Append(@, i)],
           <<[id |-> Len(s.vectors) + 1, label |-> i.label, data |-> i.data]>>)

InsertVectorReq ==
    \E i \in InsertVectorInput :
        /\ Len(db.vectors) < MaxVectors
        /\ Write(build, "add_v", i, InsertVector(db, i))

\* ------------------------------------- write handlers, mutation by mutation
\* the fan-out requests, of build "main": two TimelineNodes inserted
\* out-of-band share an external_id, so that one LinkSessionToNode call
\* creates two edges
FanOutRequests ==
    IF build # "main" THEN {}
    ELSE
    {[h |-> "add_n", d |-> i] :
        i \in {x \in InsertNodeInput :
                 x.label = "TimelineNode" /\ x.props.external_id = "k1"}}
    \cup {[h |-> "UpsertUser", d |-> d] :
        d \in {x \in UpsertUserInput :
                 x.external_id = "k1" /\ x.metadata = "m1"}}
    \cup {[h |-> "UpsertSession", d |-> d] :
        d \in {x \in UpsertSessionInput :
                 x.external_id = "k1" /\ x.user_key = "k1"}}
    \cup {[h |-> "LinkSessionToNode", d |-> d] :
        d \in {x \in LinkSessionToNodeInput :
                 x.session_external_id = "k1" /\ x.node_external_id = "k1"}}

\* the body of a write handler served mutation by mutation
StepBody(b, h, s, d) ==
    CASE b = "main" /\ h = "UpsertUser"        -> UpsertUser(s, d)
      [] b = "main" /\ h = "UpsertSession"     -> UpsertSession(s, d)
      [] b = "main" /\ h = "LinkSessionToNode" -> LinkSessionToNode(s, d)
      [] b = "dev" /\ h = "UpsertUser"         -> UpsertUser_dev(s, d)
      [] h = "add_n"                           -> InsertNode(s, d)

\* one node and one edge more than elsewhere: a Session, two TimelineNodes
InBoundsFanOut(s) ==
    Len(s.nodes) <= MaxNodes + 1 /\ Len(s.edges) <= MaxEdges + 1

\* the store held by the handler's transaction after its first k iterations
\* of `for from_val ... { for to_val ... { add_edge(...)? } }`
EdgesDone(s, label, pairs) ==
    [k \in 1 .. Len(pairs) |->
        add_edge_loop(s, label, <<>>, SubSeq(pairs, 1, k)).s]

\* the mutations of UpsertSession after its upsert_n: one add_edge for each
\* User found
UpsertSession_edges(session, d) ==
    <<session.s>>
    \o EdgesDone(session.s, "UserOwnsSession",
                 Pairs(filter_ref(session.s, n_from_type(session.s, "User"),
                                  "external_id", d.user_key),
                       session.ids))

\* the stores the transaction of a write handler holds after each of its
\* mutations, in statement order
Mutations(h, s, d) ==
    CASE h = "UpsertSession" ->
           UpsertSession_edges(
               ScanUpsert(s, "Session", "external_id", d.external_id,
                          [f \in SessionFields |-> d[f]]), d)
      [] h = "LinkSessionToNode" ->
           EdgesDone(s, "SessionInNode",
                     Pairs(filter_ref(s, n_from_type(s, "Session"),
                                      "external_id", d.session_external_id),
                           filter_ref(s, n_from_type(s, "TimelineNode"),
                                      "external_id", d.node_external_id)))
      [] OTHER -> <<StepBody(build, h, s, d).s>>

\* the handler's place: its request, its result, the number of mutations it
\* makes and of those it has made, and the store its transaction began with
Entered(p, r, w, n) ==
    /\ InBoundsFanOut(w.s)
    /\ req' = [req EXCEPT ![p] = r]
    /\ loc' = [loc EXCEPT ![p] = [err |-> w.err, out |-> w.out,
                                  n |-> n, k |-> 0, begin |-> db]]
    /\ pc' = [pc EXCEPT ![p] = IF n = 0 THEN "commit" ELSE "run"]

\* variant of Enter that does not wait for the open write transaction
Enter_unlocked(p, requests) ==
    /\ pc[p] = "idle"
    /\ writer' = p
    /\ \E r \in requests :
          Entered(p, r, StepBody(build, r.h, db, r.d),
                  Len(Mutations(r.h, db, r.d)))
    /\ txn' = [txn EXCEPT ![p] = db]
    /\ UNCHANGED <<build, db, resp>>

\* a write handler is entered with a request and returns from write_txn(),
\* granted when no write transaction is open, with the committed store
Enter(p, requests) ==
    /\ pc[p] = "idle"
    /\ writer = 0
    /\ writer' = p
    /\ \E r \in requests :
          Entered(p, r, StepBody(build, r.h, db, r.d),
                  Len(Mutations(r.h, db, r.d)))
    /\ txn' = [txn EXCEPT ![p] = db]
    /\ UNCHANGED <<build, db, resp>>

write_txn_open(p) == Enter(p, FanOutRequests)

\* UpsertUser requests of either build, any two of them may share their key
UpsertRequests ==
    {[h |-> "UpsertUser", d |-> d] :
        d \in IF build = "main" THEN UpsertUserInput ELSE UpsertUserInput_dev}

\* variant of write_txn_upsert in which the handler does its scan and its
\* upsert_n without waiting for the write transaction another handler holds
write_txn_upsert_unlocked(p) == Enter_unlocked(p, UpsertRequests)

\* UpsertUser is entered: write_txn() comes before its existence scan
write_txn_upsert(p) == Enter(p, UpsertRequests)

\* the handler's mutation was the k-th
Mutated(p, k) ==
    /\ loc' = [loc EXCEPT ![p].k = k]
    /\ pc' = [pc EXCEPT ![p] = IF k = loc[p].n THEN "commit" ELSE "run"]

\* variant of Mutate whose mutation is written to the committed store at once
Mutate_write_through(p) ==
    /\ pc[p] = "run"
    /\ txn' = [txn EXCEPT ![p] =
                  Mutations(req[p].h, loc[p].begin, req[p].d)[loc[p].k + 1]]
    /\ db' = txn'[p]
    /\ Mutated(p, loc[p].k + 1)
    /\ UNCHANGED <<build, resp, writer, req>>

\* the next mutation of the handler, G::new_mut(&db, &arena, &mut txn)...:
\* it changes the store held by the transaction
Mutate(p) ==
    /\ pc[p] = "run"
    /\ txn' = [txn EXCEPT ![p] =
                  Mutations(req[p].h, loc[p].begin, req[p].d)[loc[p].k + 1]]
    /\ Mutated(p, loc[p].k + 1)
    /\ UNCHANGED <<build, db, resp, writer, req>>

\* variant of Raise in which the handler commits what it has done so far
\* before it returns the error
Raise_after_commit(p) ==
    /\ pc[p] \in {"run", "commit"}
    /\ loc[p].k >= 1
    /\ db' = txn[p]
    /\ resp' = Response(req[p].h, req[p].d,
                        Fail(db, IF pc[p] = "run" THEN "GraphError"
                                 ELSE "TransactionError"))
    /\ writer' = 0
    /\ pc' = [pc EXCEPT ![p] = "idle"]
    /\ req' = [req EXCEPT ![p] = Idle]
    /\ txn' = [txn EXCEPT ![p] = EmptyStore]
    /\ loc' = [loc EXCEPT ![p] = <<>>]
    /\ UNCHANGED build

\* the `?` of an engine call that fails after the handler has made at least
\* one mutation: the next add_edge(...).collect_to_obj()? of the loop, or
\* txn.commit().map_err(...)?; the handler returns the error and its
\* transaction is dropped
Raise(p) ==
    /\ pc[p] \in {"run", "commit"}
    /\ loc[p].k >= 1
    /\ resp' = Response(req[p].h, req[p].d,
                        Fail(db, IF pc[p] = "run" THEN "GraphError"
                                 ELSE "TransactionError"))
    /\ writer' = 0
    /\ pc' = [pc EXCEPT ![p] = "idle"]
    /\ req' = [req EXCEPT ![p] = Idle]
    /\ txn' = [txn EXCEPT ![p] = EmptyStore]
    /\ loc' = [loc EXCEPT ![p] = <<>>]
    /\ UNCHANGED <<build, db>>

\* variant of CommitFails in which the handler answers with its payload
\* although nothing was committed
CommitFails_answers_success(p) ==
    /\ pc[p] = "commit"
    /\ loc[p].err = ""
    /\ resp' = Response(req[p].h, req[p].d, loc[p])
    /\ writer' = 0
    /\ pc' = [pc EXCEPT ![p] = "idle"]
    /\ req' = [req EXCEPT ![p] = Idle]
    /\ txn' = [txn EXCEPT ![p] = EmptyStore]
    /\ loc' = [loc EXCEPT ![p] = <<>>]
    /\ UNCHANGED <<build, db>>

\* variant of CommitFails in which the failed transaction is never closed:
\* the handler returns while its write transaction stays open
CommitFails_keeps_lock(p) ==
    /\ pc[p] = "commit"
    /\ loc[p].err = ""
    /\ resp' = Response(req[p].h, req[p].d, Fail(db, "TransactionError"))
    /\ pc' = [pc EXCEPT ![p] = "idle"]
    /\ req' = [req EXCEPT ![p] = Idle]
    /\ loc' = [loc EXCEPT ![p] = <<>>]
    /\ UNCHANGED <<build, db, writer, txn>>

\* txn.commit() fails: .map_err(|e| GraphError::New("Failed to commit
\* transaction"))? returns the error in place of Ok(response); the
\* transaction is dropped
CommitFails(p) ==
    /\ pc[p] = "commit"
    /\ loc[p].err = ""
    /\ resp' = Response(req[p].h, req[p].d, Fail(db, "TransactionError"))
    /\ writer' = 0
    /\ pc' = [pc EXCEPT ![p] = "idle"]
    /\ req' = [req EXCEPT ![p] = Idle]
    /\ txn' = [txn EXCEPT ![p] = EmptyStore]
    /\ loc' = [loc EXCEPT ![p] = <<>>]
    /\ UNCHANGED <<build, db>>

\* ---- read handlers of build "main" on any worker
ReadRequests ==
    {[h |-> "GetConceptsByCategory", d |-> [category |-> "c1"]],
     [h |-> "HealthCheck", d |-> <<>>]}

ReadBody(h, s, d) ==
    IF h = "HealthCheck" THEN HealthCheck(s, d) ELSE GetConceptsByCategory(s, d)

\* variant of read_txn_begin that waits for the open write transaction
read_txn_waits(p) ==
    /\ pc[p] = "idle"
    /\ writer = 0
    /\ \E r \in ReadRequests : req' = [req EXCEPT ![p] = r]
    /\ txn' = [txn EXCEPT ![p] = db]
    /\ loc' = [loc EXCEPT ![p] = [writer |-> writer]]
    /\ pc' = [pc EXCEPT ![p] = "read"]
    /\ UNCHANGED <<build, db, resp, writer>>

\* db.graph_env.read_txn(): granted whatever transactions are open, with a
\* snapshot of the committed store; loc notes the worker whose write
\* transaction was open then
read_txn_begin(p) ==
    /\ pc[p] = "idle"
    /\ \E r \in ReadRequests : req' = [req EXCEPT ![p] = r]
    /\ txn' = [txn EXCEPT ![p] = db]
    /\ loc' = [loc EXCEPT ![p] = [writer |-> writer]]
    /\ pc' = [pc EXCEPT ![p] = "read"]
    /\ UNCHANGED <<build, db, resp, writer>>

\* the traversal of the read handler, its response, txn.commit(), return
Answer(p) ==
    /\ pc[p] = "read"
    /\ \E r \in {ReadBody(req[p].h, txn[p], req[p].d)} :
          resp' = Response(req[p].h, req[p].d, r)
    /\ pc' = [pc EXCEPT ![p] = "idle"]
    /\ req' = [req EXCEPT ![p] = Idle]
    /\ txn' = [txn EXCEPT ![p] = EmptyStore]
    /\ loc' = [loc EXCEPT ![p] = <<>>]
    /\ UNCHANGED <<build, db, writer>>

\* Concepts added in a write transaction of their own, served by the first
\* worker
write_txn_concept(p) ==
    p = 1 /\ Enter(p, {[h |-> "add_n", d |-> i] :
                          i \in {x \in InsertConceptInput : x.props.name = "k1"}})

\* ---- UpsertWorkflowPattern served operator by operator
\* a traversal pipeline `G::new..(..).op(..).collect..()?` as its operators:
\* the source, the operator applied to it, the collection of the results
Pipeline(i, op, mutates) ==
    <<[pipe |-> i, kind |-> "seed", op |-> "G", mutates |-> mutates],
      [pipe |-> i, kind |-> "transform", op |-> op, mutates |-> mutates],
      [pipe |-> i, kind |-> "collect", op |-> "collect", mutates |-> mutates]>>

\* the pipelines of UpsertWorkflowPattern in statement order: the scan for
\* `existing`, upsert_n, the scan for `user`, one add_edge for each User found
Operators(users) ==
    Pipeline(1, "filter_ref", FALSE) \o Pipeline(2, "upsert_n", TRUE)
    \o Pipeline(3, "filter_ref", FALSE)
    \o Flatten([i \in DOMAIN users |-> Pipeline(3 + i, "add_edge", TRUE)])

\* the store the transaction holds after each of those operators
OperatorStores(s, pattern, edges) ==
    [k \in 1 .. 9 + 3 * Len(edges) |->
        IF k <= 4 THEN s
        ELSE IF k <= 10 THEN pattern.s
        ELSE edges[(k - 8) \div 3]]

\* the handler is entered, on the first worker, and holds the write
\* transaction
Run(p, d, pattern, users) ==
    /\ InBounds(add_edge_loop(pattern.s, "UserHasPattern", <<>>,
                              Pairs(users, pattern.ids)).s)
    /\ req' = [req EXCEPT ![p] = [h |-> "UpsertWorkflowPattern", d |-> d]]
    /\ loc' = [loc EXCEPT ![p] =
                  [ops    |-> Operators(users),
                   stores |-> OperatorStores(db, pattern,
                                 EdgesDone(pattern.s, "UserHasPattern",
                                           Pairs(users, pattern.ids))),
                   out    |-> Views(pattern.s, pattern.ids,
                                 {"intent_category", "occurrence_count",
                                  "metadata"}),
                   k      |-> 0,
                   pipes  |-> [i \in 1 .. 3 + Len(users) |-> "None"],
                   failed |-> 0]]

write_txn_pattern(p) ==
    /\ p = 1
    /\ pc[p] = "idle"
    /\ writer = 0
    /\ writer' = p
    /\ \E d \in {x \in UpsertWorkflowPatternInput :
                  x.metadata = "m1" /\ x.user_id = "k1"} :
          \E pattern \in {ScanUpsert(db, "WorkflowPattern", "intent_category",
                             d.intent_category,
                             [intent_category |-> d.intent_category,
                              occurrence_count |-> d.occurrence_count,
                              metadata |-> d.metadata])} :
             Run(p, d, pattern,
                 filter_ref(pattern.s, n_from_type(pattern.s, "User"),
                            "external_id", d.user_id))
    /\ txn' = [txn EXCEPT ![p] = db]
    /\ pc' = [pc EXCEPT ![p] = "op"]
    /\ UNCHANGED <<build, db, resp>>

\* the state of a pipeline after an operator of that kind
After(kind) ==
    CASE kind = "seed" -> "Seeded"
      [] kind = "transform" -> "Transformed"
      [] kind = "collect" -> "Materialized"

\* the next operator of the handler returns Ok
Operator(p) ==
    /\ pc[p] = "op"
    /\ loc[p].k < Len(loc[p].ops)
    /\ loc' = [loc EXCEPT ![p].k = @ + 1,
                          ![p].pipes[loc[p].ops[loc[p].k + 1].pipe] =
                              After(loc[p].ops[loc[p].k + 1].kind)]
    /\ txn' = [txn EXCEPT ![p] = loc[p].stores[loc[p].k + 1]]
    /\ UNCHANGED <<build, db, resp, writer, pc, req>>

\* the states of the pipelines when the handler returns: a mutation chain
\* that has begun has the outcome of the transaction
Outcome(pipes, ops, outcome) ==
    [i \in DOMAIN pipes |->
        IF pipes[i] # "None" /\ \E k \in DOMAIN ops : ops[k].pipe = i /\ ops[k].mutates
        THEN outcome ELSE pipes[i]]

\* variant of OperatorFails in which the failed pipeline is run again from
\* its source
OperatorFails_retried(p) ==
    /\ pc[p] = "op"
    /\ loc[p].k < Len(loc[p].ops)
    /\ loc[p].ops[loc[p].k + 1].kind # "seed"
    /\ loc' = [loc EXCEPT ![p].pipes[loc[p].ops[loc[p].k + 1].pipe] = "Seeded",
                          ![p].k = CHOOSE k \in 1 .. loc[p].k :
                                      /\ loc[p].ops[k].kind = "seed"
                                      /\ loc[p].ops[k].pipe =
                                            loc[p].ops[loc[p].k + 1].pipe]
    /\ UNCHANGED <<build, db, resp, writer, pc, req, txn>>

\* the next operator returns Err: the `?` after the pipeline returns the
\* error from the handler, the transaction is dropped; the worker keeps the
\* record of the request until it serves the next
OperatorFails(p) ==
    /\ pc[p] = "op"
    /\ loc[p].k < Len(loc[p].ops)
    /\ loc[p].ops[loc[p].k + 1].kind # "seed"
    /\ loc' = [loc EXCEPT ![p].failed = loc[p].k + 1,
                          ![p].pipes =
                              Outcome([loc[p].pipes EXCEPT
                                          ![loc[p].ops[loc[p].k + 1].pipe] = "Aborted"],
                                      loc[p].ops, "Aborted")]
    /\ resp' = Response(req[p].h, req[p].d, Fail(db, "GraphError"))
    /\ writer' = 0
    /\ pc' = [pc EXCEPT ![p] = "idle"]
    /\ req' = [req EXCEPT ![p] = Idle]
    /\ txn' = [txn EXCEPT ![p] = EmptyStore]
    /\ UNCHANGED <<build, db>>

\* txn.commit() after the last operator, and the response
Committed(p) ==
    /\ pc[p] = "op"
    /\ loc[p].k = Len(loc[p].ops)
    /\ db' = txn[p]
    /\ loc' = [loc EXCEPT ![p].pipes = Outcome(loc[p].pipes, loc[p].ops, "Committed")]
    /\ resp' = Response(req[p].h, req[p].d, Return(db', loc[p].out))
    /\ writer' = 0
    /\ pc' = [pc EXCEPT ![p] = "idle"]
    /\ req' = [req EXCEPT ![p] = Idle]
    /\ txn' = [txn EXCEPT ![p] = EmptyStore]
    /\ UNCHANGED build

\* GetSessionsByNode run to its return on a worker of its own: read_txn()
\* gives it the committed store of the moment
GetSessionsByNodeNow ==
    \E d \in {x \in GetSessionsByNodeInput : x.node_key = "k1"} :
        /\ resp' = Response("GetSessionsByNode", d, GetSessionsByNode(db, d))
        /\ UNCHANGED <<build, db, writer, pc, req, txn, loc>>

\* add-node requests served one by one
InsertNodeReq(labels) ==
    \E i \in InsertNodeInput :
        i.label \in labels /\ Write(build, "add_n", i, InsertNode(db, i))

\* add-edge called directly on the engine with ids the caller supplies: 1 is
\* the id of the first node stored, MaxNodes + 1 is never the id of a node
AddEdgeInput ==
    [label : {"BlockUsesTool"}, from : {1, MaxNodes + 1}, to : {1, MaxNodes + 1}]

AddEdge(s, i) ==
    LET e == add_edge(s, i.label, <<>>, i.from, i.to) IN
    IF e.err # "" THEN Fail(s, e.err)
    ELSE Return(e.s, <<EdgeView(e.s, e.ids[1])>>)

AddEdgeReq ==
    \E i \in AddEdgeInput : Write(build, "add_edge", i, AddEdge(db, i))

\* ============================================================ specifications
Init ==
    /\ build \in {"main", "dev"}
    /\ db = EmptyStore
    /\ resp = NoResp
    /\ writer = 0
    /\ pc = [p \in Procs |-> "idle"]
    /\ req = [p \in Procs |-> Idle]
    /\ txn = [p \in Procs |-> EmptyStore]
    /\ loc = [p \in Procs |-> <<>>]

\* the upsert handlers of both builds
Next ==
    \/ UpsertUserReq
    \/ UpsertToolReq
    \/ UpsertConceptReq
    \/ UpsertEntityReq
    \/ UpsertTimelineNodeReq
    \/ UpsertUserReq_dev
    \/ UpsertTimelineNodeReq_dev
    \/ UpsertToolReq_dev

Spec == Init /\ [][Next]_vars

\* upserts over a store that also holds records inserted out-of-band
NextMerge ==
    \/ InsertNodeReq({"TimelineNode"})
    \/ UpsertUserReq
    \/ UpsertTimelineNodeReq
    \/ UpsertUserReq_dev
    \/ UpsertTimelineNodeReq_dev

SpecMerge == Init /\ [][NextMerge]_vars

\* inserts against the declared secondary indices
NextUnique ==
    \/ InsertNodeReq({"User"})
    \/ UpsertUserReq
    \/ UpsertUserReq_dev

SpecUnique == Init /\ [][NextUnique]_vars

NextPattern ==
    \/ InsertNodeReq({"WorkflowPattern"})
    \/ UpsertUserReq
    \/ UpsertWorkflowPatternReq
    \/ UpsertWorkflowPatternReq_dev

SpecPattern == Init /\ [][NextPattern]_vars

\* the handlers that create edges, and edges added out-of-band
NextEdge ==
    \/ AddEdgeReq
    \/ UpsertUserReq
    \/ UpsertSessionReq
    \/ UpsertBlockReq_dev
    \/ UpsertToolReq_dev
    \/ LinkBlockToToolReq_dev

SpecEdge == Init /\ [][NextEdge]_vars

\* the handlers that create edges and the traversals that follow them
NextLink ==
    \/ UpsertUserReq
    \/ UpsertSessionReq
    \/ UpsertActivityReq
    \/ LinkActivityToSessionReq
    \/ GetCrossSessionConceptsReq
    \/ UpsertBlockReq_dev
    \/ UpsertToolReq_dev
    \/ LinkBlockToToolReq_dev
    \/ UpsertConceptReq_dev
    \/ UpsertActivityReq_dev
    \/ LinkActivityToConceptReq_dev
    \/ GetConceptConnectionsReq_dev

SpecLink == Init /\ [][NextLink]_vars

\* writes to indexed fields and the lookups that read the index
NextIndex ==
    \/ InsertNodeReq({"User"})
    \/ UpsertUserReq
    \/ GetUserByExternalIdReq
    \/ UpsertUserReq_dev
    \/ UpsertSessionReq_dev
    \/ GetUserByExternalIdReq_dev

SpecIndex == Init /\ [][NextIndex]_vars

\* write handlers of build "main" on several workers at once
NextWriters ==
    \E p \in Procs :
        \/ write_txn(p)
        \/ Commit(p)

InitMain == Init /\ build = "main"

SpecWriters == InitMain /\ [][NextWriters]_vars

\* read and write handlers of build "dev" on several workers at once
NextReaders ==
    \E p \in Procs :
        \/ write_txn(p)
        \/ Commit(p)
        \/ read_txn(p)
        \/ \E k \in 1 .. 3 : Traverse(p, k)

InitDev == Init /\ build = "dev"

SpecReaders == InitDev /\ [][NextReaders]_vars

\* write handlers of build "main" taken mutation by mutation, with a reader
NextFanOut ==
    \/ \E p \in Procs :
        \/ write_txn_open(p)
        \/ Mutate(p)
        \/ Commit(p)
    \/ GetSessionsByNodeNow

SpecFanOut == InitMain /\ [][NextFanOut]_vars

\* write handlers that return an error: a failed lookup, a uniqueness
\* conflict, an engine call failing in the middle of the handler
NextAbort ==
    \/ LinkActivityToConceptReq
    \/ CreateStepReq_dev
    \/ LinkActivityToConceptReq_dev
    \/ \E p \in Procs :
        \/ write_txn_open(p)
        \/ Mutate(p)
        \/ Raise(p)
        \/ Commit(p)

SpecAbort == Init /\ [][NextAbort]_vars

\* UpsertUser requests on several workers at once
NextUpserts ==
    \E p \in Procs :
        \/ write_txn_upsert(p)
        \/ Mutate(p)
        \/ Commit(p)

SpecUpserts == Init /\ [][NextUpserts]_vars

\* sessions with equal, different and missing start_time, listed by user
NextOrder ==
    \/ InsertSessionReq
    \/ UpsertSessionAtReq_dev
    \/ GetSessionsByUserReq_dev

SpecOrder == InitDev /\ [][NextOrder]_vars

\* vector collections filled out-of-band and searched by the handlers, under
\* each distance method
InitVector ==
    /\ build = "dev"
    /\ db \in {VectorStore(m) : m \in Metrics}
    /\ resp = NoResp
    /\ writer = 0
    /\ pc = [p \in Procs |-> "idle"]
    /\ req = [p \in Procs |-> Idle]
    /\ txn = [p \in Procs |-> EmptyStore]
    /\ loc = [p \in Procs |-> <<>>]

NextVector ==
    \/ InsertVectorReq
    \/ SearchSimilarConceptsReq_dev
    \/ SearchSimilarSessionsReq_dev

SpecVector == InitVector /\ [][NextVector]_vars

\* the handlers that resolve a record by a key, over stores that hold some of
\* the records asked for
NextLookup ==
    \/ InsertConceptReq
    \/ UpsertUserReq
    \/ UpsertActivityReq
    \/ LinkActivityToConceptReq
    \/ GetUserByExternalIdReq
    \/ UpsertUserReq_dev
    \/ UpsertToolReq_dev
    \/ UpsertBlockReq_dev
    \/ LinkBlockToToolReq_dev
    \/ GetUserByExternalIdReq_dev
    \/ GetToolByNameReq_dev

SpecLookup == Init /\ [][NextLookup]_vars

\* the scanning write handlers over a store whose reads may fail
NextScan ==
    \/ UpsertUserScanReq
    \/ UpsertSessionReq
    \/ UpsertTimelineNodeReq
    \/ LinkSessionToNodeScanReq

SpecScan == InitMain /\ [][NextScan]_vars

\* Steps created one after another
NextStep ==
    \/ CreateStepAnyReq_dev
    \/ UpsertUserReq_dev

SpecStep == InitDev /\ [][NextStep]_vars

\* a write handler run to its return, over stores of one more node and edge
WriteWide(b, h, d, r) ==
    /\ build = b
    /\ writer = 0
    /\ \A p \in Procs : pc[p] = "idle"
    /\ InBoundsFanOut(r.s)
    /\ db' = IF r.err = "" THEN r.s ELSE db
    /\ resp' = Response(h, d, r)
    /\ UNCHANGED <<build, writer, pc, req, txn, loc>>

InsertNamedReq ==
    \E i \in InsertNamedInput : WriteWide("main", "add_n", i, InsertNode(db, i))
UpsertActivityWideReq ==
    \E d \in UpsertActivityInput :
        WriteWide("main", "UpsertActivity", d, UpsertActivity(db, d))
LinkActivityToEntityReq ==
    \E d \in LinkActivityToEntityInput :
        WriteWide("main", "LinkActivityToEntity", d, LinkActivityToEntity(db, d))
UpsertUserWideReq_dev ==
    \E d \in {x \in UpsertUserInput_dev : x.metadata = "m1"} :
        WriteWide("dev", "UpsertUser", d, UpsertUser_dev(db, d))
UpsertTimelineNodeWideReq_dev ==
    \E d \in {x \in UpsertTimelineNodeInput_dev :
                  x.user_key = "k1" /\ x.metadata = "m1"} :
        WriteWide("dev", "UpsertTimelineNode", d, UpsertTimelineNode_dev(db, d))
UpsertSessionWideReq_dev ==
    \E d \in {x \in UpsertSessionInput : x.user_key = "k1"} :
        WriteWide("dev", "UpsertSession", d, UpsertSession_dev(db, d))
UpsertConceptWideReq_dev ==
    \E d \in UpsertConceptInput :
        WriteWide("dev", "UpsertConcept", d, UpsertConcept_dev(db, d))
UpsertEntityWideReq_dev ==
    \E d \in UpsertEntityInput :
        WriteWide("dev", "UpsertEntity", d, UpsertEntity_dev(db, d))

\* nodes of several types written with the same values of a same-named
\* indexed field, and the lookups that read the indices
NextScope ==
    \/ InsertNamedReq
    \/ UpsertActivityWideReq
    \/ LinkActivityToEntityReq
    \/ UpsertUserWideReq_dev
    \/ UpsertTimelineNodeWideReq_dev
    \/ UpsertSessionWideReq_dev
    \/ UpsertConceptWideReq_dev
    \/ UpsertEntityWideReq_dev
    \/ GetUserByExternalIdReq_dev

SpecScope == Init /\ [][NextScope]_vars

\* write handlers whose commit may fail
NextCommit ==
    \E p \in Procs :
        \/ write_txn_open(p)
        \/ Mutate(p)
        \/ Commit(p)
        \/ CommitFails(p)

SpecCommit == InitMain /\ [][NextCommit]_vars

\* read handlers and write handlers on any worker
NextNonBlocking ==
    \E p \in Procs :
        \/ write_txn_concept(p)
        \/ Mutate(p)
        \/ Commit(p)
        \/ read_txn_begin(p)
        \/ Answer(p)

SpecNonBlocking == InitMain /\ [][NextNonBlocking]_vars

\* UpsertWorkflowPattern operator by operator, any operator may fail; Users
\* are upserted between the requests
NextLifecycle ==
    \/ UpsertUserReq
    \/ \E p \in Procs :
          \/ write_txn_pattern(p)
          \/ Operator(p)
          \/ OperatorFails(p)
          \/ Committed(p)

SpecLifecycle == InitMain /\ [][NextLifecycle]_vars

\* ---- write handlers that wait for the write transaction
\* the Activity, the Session and the link requests of this specification
UpsertActivityOneReq ==
    \E d \in {x \in UpsertActivityInput : x.screenshot_external_id = "k1"} :
        Write("main", "UpsertActivity", d, UpsertActivity(db, d))
UpsertSessionOneReq ==
    \E d \in {x \in UpsertSessionInput :
                 x.external_id = "k1" /\ x.user_key = "k1"} :
        Write("main", "UpsertSession", d, UpsertSession(db, d))

LinkRequests ==
    {[h |-> "LinkActivityToSession",
      d |-> [screenshot_external_id |-> "k1", session_external_id |-> "k1"]],
     [h |-> "LinkActivityToConcept",
      d |-> [screenshot_external_id |-> "k1", concept_name |-> "k1",
             relevance |-> "r1"]]}

LinkBody(h, s, d) ==
    IF h = "LinkActivityToSession" THEN LinkActivityToSession(s, d)
    ELSE LinkActivityToConcept(s, d)

\* the edges the requests in flight may still add
Linking == {q \in Procs : req[q].h = "LinkActivityToSession"}

\* a request arrives at a worker and is deserialized; the handler calls
\* write_txn()
Arrive(p) ==
    /\ pc[p] = "idle"
    /\ \E r \in LinkRequests :
          /\ r.h = "LinkActivityToSession" =>
                Len(db.edges) + Cardinality(Linking) < MaxEdges
          /\ req' = [req EXCEPT ![p] = r]
    /\ pc' = [pc EXCEPT ![p] = "wait"]
    /\ UNCHANGED <<build, db, resp, writer, txn, loc>>

\* write_txn() returns: no other write transaction is open
write_txn_granted(p) ==
    /\ pc[p] = "wait"
    /\ writer = 0
    /\ writer' = p
    /\ txn' = [txn EXCEPT ![p] = db]
    /\ pc' = [pc EXCEPT ![p] = "held"]
    /\ UNCHANGED <<build, db, resp, req, loc>>

\* the traversals and the add_edge loop of the handler, up to txn.commit()
\* or to the `?` that returns the error
LinkEdges(p) ==
    /\ pc[p] = "held"
    /\ \E r \in {LinkBody(req[p].h, txn[p], req[p].d)} :
          /\ txn' = [txn EXCEPT ![p] = r.s]
          /\ loc' = [loc EXCEPT ![p] = [err |-> r.err, out |-> r.out]]
    /\ pc' = [pc EXCEPT ![p] = "commit"]
    /\ UNCHANGED <<build, db, resp, writer, req>>

NextFair ==
    \/ UpsertActivityOneReq
    \/ UpsertSessionOneReq
    \/ \E p \in Procs :
          \/ Arrive(p)
          \/ write_txn_granted(p)
          \/ LinkEdges(p)
          \/ Commit(p)
          \/ CommitFails(p)

\* fair scheduling: a handler that can take its step takes it, and the write
\* transaction is not handed past a waiting handler for ever
Fairness ==
    \A p \in Procs :
        /\ SF_vars(write_txn_granted(p))
        /\ WF_vars(LinkEdges(p))
        /\ WF_vars(Commit(p) \/ CommitFails(p))

SpecFair == InitMain /\ [][NextFair]_vars /\ Fairness

\* ---- the count handlers
\* count_to_val(): the number of records the traversal yields
count_to_val(ids) == Len(ids)

GetActivityCount(s, d) ==
    Return(s, <<[count |-> count_to_val(n_from_type(s, "Activity"))]>>)
GetSessionCount_dev(s, d) ==
    Return(s, <<[count |-> count_to_val(n_from_type(s, "Session"))]>>)
GetUserCount_dev(s, d) ==
    Return(s, <<[count |-> count_to_val(n_from_type(s, "User"))]>>)

GetActivityCountReq ==
    Read("main", "GetActivityCount", <<>>, GetActivityCount(db, <<>>))
GetSessionCountReq_dev ==
    Read("dev", "GetSessionCount", <<>>, GetSessionCount_dev(db, <<>>))
GetUserCountReq_dev ==
    Read("dev", "GetUserCount", <<>>, GetUserCount_dev(db, <<>>))

\* upserts of Sessions that differ in their key and in their other fields
UpsertSessionKeyReq_dev ==
    \E d \in {x \in UpsertSessionInput_dev : x.user_key = "k1"} :
        Write("dev", "UpsertSession", d, UpsertSession_dev(db, d))

\* upserts from the empty store, and the counts
NextKeys ==
    \/ UpsertUserReq
    \/ UpsertActivityReq
    \/ GetActivityCountReq
    \/ UpsertUserReq_dev
    \/ UpsertSessionKeyReq_dev
    \/ UpsertBlockReq_dev
    \/ UpsertToolReq_dev
    \/ GetSessionCountReq_dev
    \/ GetUserCountReq_dev

SpecKeys == Init /\ [][NextKeys]_vars

\* ---- UpsertSession and UpsertTimelineNode, add_edge by add_edge
UpsertOwnerReq ==
    \E d \in {x \in UpsertUserInput : x.external_id = "k1" /\ x.metadata = "m1"} :
        Write("main", "UpsertUser", d, UpsertUser(db, d))

OwnerRequests ==
    {[h |-> "UpsertSession", d |-> d] :
        d \in {x \in UpsertSessionInput : x.external_id = "k1"}}
    \cup {[h |-> "UpsertTimelineNode", d |-> d] :
        d \in {x \in UpsertTimelineNodeInput :
                 x.external_id = "k1" /\ x.user_key = "k1" /\ x.metadata = "m1"}}

\* the scan and the upsert_n of the handler
OwnerUpsert(h, s, d) ==
    IF h = "UpsertSession"
    THEN ScanUpsert(s, "Session", "external_id", d.external_id,
                    [f \in SessionFields |-> d[f]])
    ELSE ScanUpsert(s, "TimelineNode", "external_id", d.external_id,
                    [external_id |-> d.external_id, node_type |-> d.node_type,
                     title |-> d.title, metadata |-> d.metadata])

OwnerEdge(h) == IF h = "UpsertSession" THEN "UserOwnsSession" ELSE "UserOwnsNode"

OwnerFields(h) ==
    IF h = "UpsertSession" THEN SessionFields
    ELSE {"external_id", "node_type", "title", "metadata"}

\* the handler is entered: write_txn(), the existence scan, upsert_n in the
\* transaction, then the scan of the Users on the transaction
write_txn_node(p) ==
    /\ p = 1
    /\ pc[p] = "idle"
    /\ writer = 0
    /\ writer' = p
    /\ \E r \in OwnerRequests :
       \E node \in {OwnerUpsert(r.h, db, r.d)} :
       \E user \in {filter_ref(node.s, n_from_type(node.s, "User"),
                               "external_id", r.d.user_key)} :
          /\ node.err = ""
          /\ Len(node.s.nodes) <= MaxNodes
          /\ Len(db.edges) + Len(user) <= MaxEdges
          /\ req' = [req EXCEPT ![p] = r]
          /\ txn' = [txn EXCEPT ![p] = node.s]
          /\ loc' = [loc EXCEPT ![p] =
                        [err |-> "", k |-> 0, node |-> node.ids[1],
                         pairs |-> Pairs(user, node.ids),
                         out |-> Views(node.s, node.ids, OwnerFields(r.h))]]
          /\ pc' = [pc EXCEPT ![p] = IF user = <<>> THEN "commit" ELSE "edges"]
    /\ UNCHANGED <<build, db, resp>>

\* the handler after add_edge(...).collect_to_obj()? returned e
EdgeAdded(p, e) ==
    IF e.err # ""
    THEN /\ resp' = Response(req[p].h, req[p].d, Fail(db, e.err))
         /\ writer' = 0
         /\ pc' = [pc EXCEPT ![p] = "idle"]
         /\ req' = [req EXCEPT ![p] = Idle]
         /\ txn' = [txn EXCEPT ![p] = EmptyStore]
         /\ loc' = [loc EXCEPT ![p] = <<>>]
         /\ UNCHANGED <<build, db>>
    ELSE /\ txn' = [txn EXCEPT ![p] = e.s]
         /\ loc' = [loc EXCEPT ![p].k = @ + 1]
         /\ pc' = [pc EXCEPT ![p] = IF loc[p].k + 1 = Len(loc[p].pairs)
                                    THEN "commit" ELSE "edges"]
         /\ UNCHANGED <<build, db, resp, writer, req>>

\* variant of add_edge_in_txn whose add_edge sees the committed store only
add_edge_committed_view(p) ==
    /\ pc[p] = "edges"
    /\ \E e \in {add_edge(db, OwnerEdge(req[p].h), <<>>,
                           loc[p].pairs[loc[p].k + 1][1],
                           loc[p].pairs[loc[p].k + 1][2])} : EdgeAdded(p, e)

\* the next add_edge of `for from_val in user.iter()`:
\* G::new_mut(&db, &arena, &mut txn).add_edge(..., from_val.id(), node.id())
add_edge_in_txn(p) ==
    /\ pc[p] = "edges"
    /\ \E e \in {add_edge(txn[p], OwnerEdge(req[p].h), <<>>,
                           loc[p].pairs[loc[p].k + 1][1],
                           loc[p].pairs[loc[p].k + 1][2])} : EdgeAdded(p, e)

NextOwnWrites ==
    \/ UpsertOwnerReq
    \/ \E p \in Procs :
          \/ write_txn_node(p)
          \/ add_edge_in_txn(p)
          \/ Commit(p)
          \/ CommitFails(p)

SpecOwnWrites == InitMain /\ [][NextOwnWrites]_vars

\* ---- request bodies that may fail to deserialize
\* HealthCheck of build "dev": the first User
HealthCheck_dev(s, d) ==
    LET users == range(n_from_type(s, "User"), 0, 1)
    IN  Return(s, Views(s, users, {"metadata", "external_id", "created_at"}))

\* the fields of the handler's input struct; GetActivityCount has none and
\* does not look at the body
InputFields(h) ==
    CASE h = "LinkSessionToNode" -> {"session_external_id", "node_external_id"}
      [] h = "HealthCheck"       -> {"dummy"}
      [] h = "GetActivityCount"  -> {}

Deserializes(h) == h # "GetActivityCount"

\* in_fmt.deserialize::<Input>(&body): Ok when the body has the fields of the
\* struct, as the derived Deserialize requires
deserialize(h, body) ==
    IF InputFields(h) \subseteq DOMAIN body
    THEN [err |-> "", d |-> [f \in InputFields(h) |-> body[f]]]
    ELSE [err |-> "SerializationError", d |-> body]

\* request bodies: complete ones, one that lacks a field, one of another
\* handler
Bodies ==
    {[session_external_id |-> "k1", node_external_id |-> "k1"],
     [session_external_id |-> "k1"],
     [dummy |-> "x"]}

BodyRequests ==
    {[h |-> h, d |-> b] :
        h \in IF build = "main" THEN {"LinkSessionToNode", "GetActivityCount"}
              ELSE {"HealthCheck"},
        b \in Bodies}

ParsedBody(h, s, d) ==
    CASE h = "LinkSessionToNode" -> LinkSessionToNode(s, d)
      [] h = "HealthCheck"       -> HealthCheck_dev(s, d)
      [] h = "GetActivityCount"  -> GetActivityCount(s, d)

UpsertTimelineNodeOneReq ==
    \E d \in {x \in UpsertTimelineNodeInput :
                 x.external_id = "k1" /\ x.user_key = "k1" /\ x.metadata = "m1"} :
        Write("main", "UpsertTimelineNode", d, UpsertTimelineNode(db, d))

\* a request reaches its handler on the first worker
Receive(p) ==
    /\ p = 1
    /\ pc[p] = "idle"
    /\ \E r \in BodyRequests : req' = [req EXCEPT ![p] = r]
    /\ pc' = [pc EXCEPT ![p] = "received"]
    /\ UNCHANGED <<build, db, resp, writer, txn, loc>>

\* `deserialize(...)?` returns the error: the handler is left before
\* write_txn() or read_txn()
deserialize_fails(p) ==
    /\ pc[p] = "received"
    /\ Deserializes(req[p].h)
    /\ deserialize(req[p].h, req[p].d).err # ""
    /\ resp' = Response(req[p].h, req[p].d,
                        Fail(db, deserialize(req[p].h, req[p].d).err))
    /\ pc' = [pc EXCEPT ![p] = "idle"]
    /\ req' = [req EXCEPT ![p] = Idle]
    /\ UNCHANGED <<build, db, writer, txn, loc>>

\* the handler has its transaction and runs on the store s with input d
Begun(p, h, d) ==
    /\ h = "LinkSessionToNode" => writer = 0 /\ InBounds(ParsedBody(h, db, d).s)
    /\ writer' = IF h = "LinkSessionToNode" THEN p ELSE writer
    /\ req' = [req EXCEPT ![p] = [h |-> h, d |-> d]]
    /\ txn' = [txn EXCEPT ![p] = db]
    /\ loc' = [loc EXCEPT ![p] = [begun |-> TRUE]]
    /\ pc' = [pc EXCEPT ![p] = "txn"]
    /\ UNCHANGED <<build, db, resp>>

\* variant of txn_begin that opens the transaction before it looks at the
\* result of deserialize
txn_begin_unparsed(p) ==
    /\ pc[p] = "received"
    /\ Begun(p, req[p].h, req[p].d)

\* the body deserialized, or the handler has no input: write_txn() of a
\* write handler, read_txn() of a read handler
txn_begin(p) ==
    /\ pc[p] = "received"
    /\ IF Deserializes(req[p].h)
       THEN /\ deserialize(req[p].h, req[p].d).err = ""
            /\ Begun(p, req[p].h, deserialize(req[p].h, req[p].d).d)
       ELSE Begun(p, req[p].h, <<>>)

\* the traversals on the transaction, the response, txn.commit()
Respond(p) ==
    /\ pc[p] = "txn"
    /\ \E r \in {ParsedBody(req[p].h, txn[p], req[p].d)} :
          /\ resp' = Response(req[p].h, req[p].d, r)
          /\ db' = IF r.err = "" THEN r.s ELSE db
    /\ writer' = IF writer = p THEN 0 ELSE writer
    /\ pc' = [pc EXCEPT ![p] = "idle"]
    /\ req' = [req EXCEPT ![p] = Idle]
    /\ txn' = [txn EXCEPT ![p] = EmptyStore]
    /\ loc' = [loc EXCEPT ![p] = <<>>]
    /\ UNCHANGED build

NextMalformed ==
    \/ UpsertSessionOneReq
    \/ UpsertTimelineNodeOneReq
    \/ UpsertUserReq_dev
    \/ \E p \in Procs :
          \/ Receive(p)
          \/ deserialize_fails(p)
          \/ txn_begin(p)
          \/ Respond(p)

SpecMalformed == Init /\ [][NextMalformed]_vars

\* ---- the backfill handlers, paged by a client
\* variant of GetAllSessionsForBackfill whose range includes end_range
GetAllSessionsForBackfill_inclusive(s, d) ==
    LET sessions == range(n_from_type(s, "Session"), d.start, d.end_range + 1)
    IN  Return(s, Views(s, sessions, SessionFields))

GetAllSessionsForBackfill(s, d) ==
    LET sessions == range(n_from_type(s, "Session"), d.start, d.end_range)
    IN  Return(s, Views(s, sessions, SessionFields))

GetAllActivitiesForBackfill(s, d) ==
    LET activities == range(n_from_type(s, "Activity"), d.start, d.end_range)
    IN  Return(s, Views(s, activities, ActivityFields))

Backfill(h, s, d) ==
    IF h = "GetAllSessionsForBackfill" THEN GetAllSessionsForBackfill(s, d)
    ELSE GetAllActivitiesForBackfill(s, d)

UpsertSessionAnyReq ==
    \E d \in {x \in UpsertSessionInput : x.user_key = "k1"} :
        Write("main", "UpsertSession", d, UpsertSession(db, d))

\* no backfill is under way
NoPaging == DOMAIN loc[1] = {}

\* a client starts a backfill with page size k; it remembers the store to
\* tell whether its pages were read from one store
BackfillStart ==
    /\ NoPaging
    /\ \E h \in {"GetAllSessionsForBackfill", "GetAllActivitiesForBackfill"} :
       \E k \in 1 .. MaxRange :
          loc' = [loc EXCEPT ![1] =
                     [h |-> h, k |-> k, next |-> 0, acc |-> <<>>, store |-> db,
                      same |-> TRUE, done |-> FALSE]]
    /\ UNCHANGED <<build, db, resp, writer, pc, req, txn>>

\* the next page (next, next + k) is requested and answered; a page shorter
\* than k is the last
BackfillPage ==
    /\ ~NoPaging /\ ~loc[1].done
    /\ \A p \in Procs : pc[p] = "idle"
    /\ \E d \in {[start |-> loc[1].next, end_range |-> loc[1].next + loc[1].k]} :
       \E r \in {Backfill(loc[1].h, db, d)} :
          /\ resp' = Response(loc[1].h, d, r)
          /\ loc' = [loc EXCEPT ![1].next = @ + loc[1].k,
                                ![1].acc = @ \o [i \in DOMAIN r.out |-> r.out[i].id],
                                ![1].same = @ /\ db = loc[1].store,
                                ![1].done = Len(r.out) < loc[1].k]
    /\ UNCHANGED <<build, db, writer, pc, req, txn>>

\* the client is done with its pages
BackfillEnd ==
    /\ ~NoPaging /\ loc[1].done
    /\ loc' = [loc EXCEPT ![1] = <<>>]
    /\ UNCHANGED <<build, db, resp, writer, pc, req, txn>>

NextBackfill ==
    \/ UpsertSessionAnyReq
    \/ UpsertActivityReq
    \/ BackfillStart
    \/ BackfillPage
    \/ BackfillEnd

SpecBackfill == InitMain /\ [][NextBackfill]_vars

\* ---- AggregateSessionsByWorkflow
\* the handler answers with the traversal's records as they are: the User of
\* the key, out_node("UserOwnsSession"), collect; no reducer follows
AggregateSessionsByWorkflow(s, d) ==
    LET sessions == out_node(s, filter_ref(s, n_from_type(s, "User"),
                                           "external_id", d.user_key),
                             "UserOwnsSession")
    IN  Return(s, Views(s, sessions, SessionFields))

AggregateSessionsByWorkflowReq ==
    \E d \in [user_key : Keys] :
        Read("main", "AggregateSessionsByWorkflow", d,
             AggregateSessionsByWorkflow(db, d))

\* Sessions of the User k1 in two workflows
UpsertSessionWorkflowReq ==
    \E x \in {y \in UpsertSessionInput : y.user_key = "k1"} :
    \E w \in {"w1", "w2"} :
        WriteWide("main", "UpsertSession", [x EXCEPT !.workflow_primary = w],
                  UpsertSession(db, [x EXCEPT !.workflow_primary = w]))

UpsertOwnerWideReq ==
    \E d \in {x \in UpsertUserInput : x.external_id = "k1" /\ x.metadata = "m1"} :
        WriteWide("main", "UpsertUser", d, UpsertUser(db, d))

NextAggregate ==
    \/ UpsertOwnerWideReq
    \/ UpsertSessionWorkflowReq
    \/ AggregateSessionsByWorkflowReq

SpecAggregate == InitMain /\ [][NextAggregate]_vars

\* ---- three Sessions of one user, listed whole
\* Sessions inserted out-of-band without a start_time; external_id is
\* indexed, so a third key makes room for a third Session
InsertSessionWideReq ==
    \E i \in InsertSessionInput
              \cup {[label |-> "Session",
                     props |-> [external_id |-> "k3", user_key |-> "k1"]]} :
        WriteWide("dev", "add_n", i, InsertNode(db, i))

UpsertSessionAtWideReq_dev ==
    \E d \in {x \in UpsertSessionInput_dev : x.user_key = "k1"} :
        WriteWide("dev", "UpsertSession", d, UpsertSession_dev(db, d))

GetSessionsByUserAllReq_dev ==
    \E d \in {x \in GetSessionsByUserInput_dev :
                 x.start <= 1 /\ x.end_range = MaxRange} :
        \E r \in GetSessionsByUser_dev(db, d) :
            Read("dev", "GetSessionsByUser", d, r)

NextStable ==
    \/ InsertSessionWideReq
    \/ UpsertSessionAtWideReq_dev
    \/ GetSessionsByUserAllReq_dev

SpecStable == InitDev /\ [][NextStable]_vars

\* variant of GetCrossSessionContext that starts from every User
GetCrossSessionContext_any_user(s, d) ==
    LET users      == n_from_type(s, "User")
        sessions   == out_node(s, users, "UserOwnsSession")
        activities == in_node(s, sessions, "ActivityInSession")
        entities   == out_node(s, activities, "ActivityMentionsEntity")
    IN  Return(s, Views(s, entities, {"name", "entity_type", "metadata"}))

\* ---- handlers not marked is_write, step by step, beside a writer
GetCrossSessionContext(s, d) ==
    LET users      == filter_ref(s, n_from_type(s, "User"), "external_id", d.user_key)
        sessions   == out_node(s, users, "UserOwnsSession")
        activities == in_node(s, sessions, "ActivityInSession")
        entities   == out_node(s, activities, "ActivityMentionsEntity")
    IN  Return(s, Views(s, entities, {"name", "entity_type", "metadata"}))

GetRelatedSessions_dev(s, d) ==
    LET session == collect_to_obj(s, n_from_index(s, "Session", "external_id",
                                                  d.session_external_id))
    IN  IF session.err # "" THEN Fail(s, session.err)
        ELSE
        LET node    == out_node(s, session.ids, "BelongsTo")
            related == range(in_node(s, node, "BelongsTo"), 0, 50)
        IN  Return(s, Views(s, related, SessionFields_dev))

ReadOnlyRequests ==
    IF build = "main"
    THEN {[h |-> "HealthCheck", d |-> <<>>]}
         \cup {[h |-> "GetCrossSessionContext", d |-> d] : d \in [user_key : Keys]}
    ELSE {[h |-> "GetRelatedSessions", d |-> d] :
             d \in [session_external_id : Keys]}

ReadOnlyBody(h, s, d) ==
    CASE h = "HealthCheck"            -> HealthCheck(s, d)
      [] h = "GetCrossSessionContext" -> GetCrossSessionContext(s, d)
      [] h = "GetRelatedSessions"     -> GetRelatedSessions_dev(s, d)

\* the handler has its transaction
ReadBegun(p) ==
    /\ \E r \in ReadOnlyRequests : req' = [req EXCEPT ![p] = r]
    /\ txn' = [txn EXCEPT ![p] = db]
    /\ loc' = [loc EXCEPT ![p] = [writer |-> writer]]
    /\ pc' = [pc EXCEPT ![p] = "read"]
    /\ UNCHANGED <<build, db, resp>>

\* variant of read_txn_only in which the handler opens a write transaction
read_txn_as_writer(p) ==
    /\ p = 2
    /\ pc[p] = "idle"
    /\ writer = 0
    /\ writer' = p
    /\ ReadBegun(p)

\* a handler not marked is_write is entered on the second worker:
\* db.graph_env.read_txn()
read_txn_only(p) ==
    /\ p = 2
    /\ pc[p] = "idle"
    /\ UNCHANGED writer
    /\ ReadBegun(p)

\* the traversal on the read transaction, the response or the error of a
\* `?`, txn.commit() of the read transaction
Reply(p) ==
    /\ pc[p] = "read"
    /\ \E r \in {ReadOnlyBody(req[p].h, txn[p], req[p].d)} :
          resp' = Response(req[p].h, req[p].d, r)
    /\ pc' = [pc EXCEPT ![p] = "idle"]
    /\ req' = [req EXCEPT ![p] = Idle]
    /\ txn' = [txn EXCEPT ![p] = EmptyStore]
    /\ loc' = [loc EXCEPT ![p] = <<>>]
    /\ UNCHANGED <<build, db, writer>>

\* a User, written by the first worker in a transaction of its own
write_txn_user(p) ==
    p = 1 /\ Enter(p, {r \in UpsertRequests :
                          r.d.external_id = "k1" /\ r.d.metadata = "m1"})

\* an edge between the first two records, added out-of-band
BelongsToReq ==
    \E i \in [label : {"BelongsTo", "UserOwnsSession"}, from : {1}, to : {2}] :
        Write(build, "add_edge", i, AddEdge(db, i))

UpsertSessionOneReq_dev ==
    \E d \in {x \in UpsertSessionInput_dev :
                 x.external_id = "k1" /\ x.user_key = "k1" /\ x.start_time = "t1"} :
        Write("dev", "UpsertSession", d, UpsertSession_dev(db, d))

UpsertTimelineNodeOneReq_dev ==
    \E d \in {x \in UpsertTimelineNodeInput_dev :
                 x.external_id = "k1" /\ x.user_key = "k1" /\ x.metadata = "m1"} :
        Write("dev", "UpsertTimelineNode", d, UpsertTimelineNode_dev(db, d))

NextReadOnly ==
    \/ UpsertSessionOneReq
    \/ UpsertSessionOneReq_dev
    \/ UpsertTimelineNodeOneReq_dev
    \/ BelongsToReq
    \/ \E p \in Procs :
          \/ write_txn_user(p)
          \/ Mutate(p)
          \/ Commit(p)
          \/ read_txn_only(p)
          \/ Reply(p)

SpecReadOnly == Init /\ [][NextReadOnly]_vars

\* ---- the link handlers over two Sessions and two TimelineNodes of one key
\* build "main" declares no index on external_id: records inserted
\* out-of-band may share a key; no record carries the key "k2"
PairInput ==
    {[label |-> l, props |-> [external_id |-> "k1"]] :
        l \in {"Session", "TimelineNode"}}
    \cup {[label |-> "Activity", props |-> [screenshot_external_id |-> "k1"]]}

\* two nodes and three edges more than elsewhere: two records on each side
InBoundsPairs(s) ==
    Len(s.nodes) <= MaxNodes + 2 /\ Len(s.edges) <= MaxEdges + 3

WritePairs(h, d, r) ==
    /\ build = "main"
    /\ writer = 0
    /\ \A p \in Procs : pc[p] = "idle"
    /\ InBoundsPairs(r.s)
    /\ db' = IF r.err = "" THEN r.s ELSE db
    /\ resp' = Response(h, d, r)
    /\ UNCHANGED <<build, writer, pc, req, txn, loc>>

InsertPairReq ==
    \E i \in PairInput : WritePairs("add_n", i, InsertNode(db, i))

LinkSessionToNodePairsReq ==
    \E d \in [session_external_id : Keys, node_external_id : Keys] :
        WritePairs("LinkSessionToNode", d, LinkSessionToNode(db, d))

LinkActivityToSessionPairsReq ==
    \E d \in [screenshot_external_id : {"k1"}, session_external_id : Keys] :
        WritePairs("LinkActivityToSession", d, LinkActivityToSession(db, d))

NextPairs ==
    \/ InsertPairReq
    \/ LinkSessionToNodePairsReq
    \/ LinkActivityToSessionPairsReq

SpecPairs == InitMain /\ [][NextPairs]_vars

\* ---- a Session and a Block upserted again and again for the same User
GetSessionsByUser(s, d) ==
    LET users    == filter_ref(s, n_from_type(s, "User"), "external_id", d.user_key)
        sessions == range(out_node(s, users, "UserOwnsSession"),
                          d.start, d.end_range)
    IN  Return(s, Views(s, sessions, SessionFields))

BlockFields ==
    {"canonical_slug", "intent_label", "primary_tool", "occurrence_count",
     "metadata"}

UpsertBlock(s, d) ==
    LET block == ScanUpsert(s, "Block", "canonical_slug", d.canonical_slug,
                            [f \in BlockFields |-> d[f]])
    IN  IF block.err # "" THEN Fail(s, block.err)
        ELSE
        LET user == filter_ref(block.s, n_from_type(block.s, "User"),
                               "external_id", d.user_id)
            edge == add_edge_loop(block.s, "UserHasBlock", <<>>,
                                  Pairs(user, block.ids))
        IN  IF edge.err # "" THEN Fail(s, edge.err)
            ELSE Return(edge.s, Views(block.s, block.ids, BlockFields))

UpsertUserAgainReq ==
    \E d \in {x \in UpsertUserInput : x.metadata = "m1"} :
        WritePairs("UpsertUser", d, UpsertUser(db, d))

UpsertSessionAgainReq ==
    \E d \in {x \in UpsertSessionInput : x.external_id = "k1"} :
        WritePairs("UpsertSession", d, UpsertSession(db, d))

UpsertBlockAgainReq ==
    \E d \in [canonical_slug : {"k1"}, intent_label : {"i1"},
              primary_tool : {"k1"}, occurrence_count : {"1"},
              metadata : {"m1"}, user_id : {"k1"}] :
        WritePairs("UpsertBlock", d, UpsertBlock(db, d))

\* a page wide enough for every edge the store may hold
GetSessionsByUserAllReq ==
    \E d \in [user_key : Keys, start : {0}, end_range : {MaxRange + 1}] :
        Read("main", "GetSessionsByUser", d, GetSessionsByUser(db, d))

NextAgain ==
    \/ UpsertUserAgainReq
    \/ UpsertSessionAgainReq
    \/ UpsertBlockAgainReq
    \/ GetSessionsByUserAllReq

SpecAgain == InitMain /\ [][NextAgain]_vars

\* ---- one intent category upserted by two users
GetWorkflowPatterns(s, d) ==
    LET users    == filter_ref(s, n_from_type(s, "User"), "external_id", d.user_id)
        patterns == out_node(s, users, "UserHasPattern")
    IN  Return(s, Views(s, patterns,
                        {"intent_category", "occurrence_count", "metadata"}))

\* user k1 always sends count "1" and metadata "m1", user k2 "2" and "m2":
\* the values a pattern holds name the user that wrote them last; the
\* category k2 is upserted by user k1 alone
PatternInput ==
    {[user_id |-> u.k, intent_category |-> c, occurrence_count |-> u.n,
      metadata |-> u.m] :
        u \in {[k |-> "k1", n |-> "1", m |-> "m1"],
               [k |-> "k2", n |-> "2", m |-> "m2"]},
        c \in Keys} \ {[user_id |-> "k2", intent_category |-> "k2",
                        occurrence_count |-> "2", metadata |-> "m2"]}

UpsertWorkflowPatternSharedReq ==
    \E d \in PatternInput :
        WritePairs("UpsertWorkflowPattern", d, UpsertWorkflowPattern(db, d))

GetWorkflowPatternsReq ==
    \E d \in [user_id : {"k1"}] :
        Read("main", "GetWorkflowPatterns", d, GetWorkflowPatterns(db, d))

NextPatterns ==
    \/ UpsertUserAgainReq
    \/ UpsertWorkflowPatternSharedReq
    \/ GetWorkflowPatternsReq

SpecPatterns == InitMain /\ [][NextPatterns]_vars

\* ---- the sessions of every user, listed for a caller that names a user
\* variant of GetAllSessionsExcludingUser that leaves out the Sessions owned
\* by a User of the key
GetAllSessionsExcludingUser_filtered(s, d) ==
    LET others   == SelectSeq(n_from_type(s, "Session"),
                       LAMBDA id : filter_ref(s, in_node(s, <<id>>, "UserOwnsSession"),
                                     "external_id", d.exclude_user_key) = <<>>)
        sessions == range(others, d.start, d.end_range)
    IN  Return(s, Views(s, sessions, SessionFields))

\* data.exclude_user_key is deserialized and never read
GetAllSessionsExcludingUser(s, d) ==
    LET sessions == range(n_from_type(s, "Session"), d.start, d.end_range)
    IN  Return(s, Views(s, sessions, SessionFields))

\* the Session k1 of the User k1, the Session k2 of the User k2
UpsertSessionOwnedReq ==
    \E d \in {x \in UpsertSessionInput : x.external_id = x.user_key} :
        WritePairs("UpsertSession", d, UpsertSession(db, d))

PageInput == [start : {0, 1}, end_range : {MaxRange}]

GetAllSessionsExcludingUserReq ==
    \E k \in Keys : \E g \in PageInput :
    \E d \in {[exclude_user_key |-> k, start |-> g.start,
               end_range |-> g.end_range]} :
        Read("main", "GetAllSessionsExcludingUser", d,
             GetAllSessionsExcludingUser(db, d))

GetAllSessionsForBackfillReq ==
    \E d \in PageInput :
        Read("main", "GetAllSessionsForBackfill", d,
             GetAllSessionsForBackfill(db, d))

NextExcluding ==
    \/ UpsertUserAgainReq
    \/ UpsertSessionOwnedReq
    \/ GetAllSessionsExcludingUserReq
    \/ GetAllSessionsForBackfillReq

SpecExcluding == InitMain /\ [][NextExcluding]_vars

\* ---- the chain User - Session - Activity - Entity or Concept of the user
\* k1, beside requests that name the user k2, who has no User record
\* two nodes and two edges more than elsewhere: the four records and the
\* three edges of one chain
InBoundsChain(s) ==
    Len(s.nodes) <= MaxNodes + 2 /\ Len(s.edges) <= MaxEdges + 2

WriteChain(h, d, r) ==
    /\ build = "main"
    /\ writer = 0
    /\ \A p \in Procs : pc[p] = "idle"
    /\ InBoundsChain(r.s)
    /\ db' = IF r.err = "" THEN r.s ELSE db
    /\ resp' = Response(h, d, r)
    /\ UNCHANGED <<build, writer, pc, req, txn, loc>>

UpsertUserChainReq ==
    \E d \in {x \in UpsertUserInput : x.external_id = "k1" /\ x.metadata = "m1"} :
        WriteChain("UpsertUser", d, UpsertUser(db, d))

\* one Session, upserted for either user
UpsertSessionChainReq ==
    \E d \in {x \in UpsertSessionInput : x.external_id = "k1"} :
        WriteChain("UpsertSession", d, UpsertSession(db, d))

UpsertActivityChainReq ==
    \E d \in {x \in UpsertActivityInput : x.screenshot_external_id = "k1"} :
        WriteChain("UpsertActivity", d, UpsertActivity(db, d))

LinkActivityToSessionChainReq ==
    \E d \in [screenshot_external_id : {"k1"}, session_external_id : {"k1"}] :
        WriteChain("LinkActivityToSession", d, LinkActivityToSession(db, d))

\* UpsertEntity and UpsertConcept of build "main" insert nothing: one leaf,
\* an Entity or a Concept, is inserted out-of-band
InsertLeafReq ==
    /\ \A id \in NodeIds(db) : Label(db, id) \notin {"Entity", "Concept"}
    /\ \E i \in {[label |-> "Entity",
               props |-> [name |-> "k1", entity_type |-> "e1", metadata |-> "m1"]],
              [label |-> "Concept",
               props |-> [name |-> "k1", category |-> "c1",
                          relevance_score |-> "r1"]]} :
        WriteChain("add_n", i, InsertNode(db, i))

LinkActivityToEntityChainReq ==
    \E d \in {x \in LinkActivityToEntityInput :
                 x.screenshot_external_id = "k1" /\ x.entity_name = "k1"} :
        WriteChain("LinkActivityToEntity", d, LinkActivityToEntity(db, d))

LinkActivityToConceptChainReq ==
    \E d \in {x \in LinkActivityToConceptInput :
                 x.screenshot_external_id = "k1" /\ x.concept_name = "k1"} :
        WriteChain("LinkActivityToConcept", d, LinkActivityToConcept(db, d))

CrossSession(h, s, d) ==
    IF h = "GetCrossSessionContext" THEN GetCrossSessionContext(s, d)
    ELSE GetCrossSessionConcepts(s, d)

CrossSessionReq ==
    \E h \in {"GetCrossSessionContext", "GetCrossSessionConcepts"} :
    \E d \in [user_key : Keys] :
        Read("main", h, d, CrossSession(h, db, d))

NextChain ==
    \/ UpsertUserChainReq
    \/ UpsertSessionChainReq
    \/ UpsertActivityChainReq
    \/ LinkActivityToSessionChainReq
    \/ InsertLeafReq
    \/ LinkActivityToEntityChainReq
    \/ LinkActivityToConceptChainReq
    \/ CrossSessionReq

SpecChain == InitMain /\ [][NextChain]_vars

\* ---- Entities upserted again and again, beside Entities stored with a count
\* an Entity written outside UpsertEntity, carrying a frequency of its own
InsertEntityReq_dev ==
    \E i \in {[label |-> "Entity",
               props |-> [name |-> k, entity_type |-> "e1", frequency |-> "2",
                          metadata |-> "m1"]] : k \in Keys} :
        Write("dev", "add_n", i, InsertNode(db, i))

UpsertEntityAgainReq_dev ==
    \E d \in [name : Keys, entity_type : {"e1"}, metadata : Metas] :
        Write("dev", "UpsertEntity", d, UpsertEntity_dev(db, d))

NextFrequency ==
    \/ InsertEntityReq_dev
    \/ UpsertEntityAgainReq_dev

SpecFrequency == InitDev /\ [][NextFrequency]_vars

\* ---- Sessions that share TimelineNodes
\* variant of GetRelatedSessions that leaves the queried Sessions out
GetRelatedSessions_others(s, d) ==
    LET session == filter_ref(s, n_from_type(s, "Session"),
                              "external_id", d.session_external_id)
        related == SelectSeq(in_node(s, out_node(s, session, "SessionInNode"),
                                     "SessionInNode"),
                             LAMBDA id : \A i \in DOMAIN session : session[i] # id)
    IN  Return(s, Views(s, related, SessionFields))

GetRelatedSessions(s, d) ==
    LET session == filter_ref(s, n_from_type(s, "Session"),
                              "external_id", d.session_external_id)
        related == in_node(s, out_node(s, session, "SessionInNode"),
                           "SessionInNode")
    IN  Return(s, Views(s, related, SessionFields))

UpsertSessionSharedReq ==
    \E d \in {x \in UpsertSessionInput : x.user_key = "k1"} :
        WriteChain("UpsertSession", d, UpsertSession(db, d))

UpsertTimelineNodeSharedReq ==
    \E d \in {x \in UpsertTimelineNodeInput :
                 x.user_key = "k1" /\ x.metadata = "m1"} :
        WriteChain("UpsertTimelineNode", d, UpsertTimelineNode(db, d))

\* the Session k1 is linked to either node, the Session k2 to the node k1
LinkSessionToNodeSharedReq ==
    \E d \in {x \in [session_external_id : Keys, node_external_id : Keys] :
                 x.session_external_id = "k1" \/ x.node_external_id = "k1"} :
        WriteChain("LinkSessionToNode", d, LinkSessionToNode(db, d))

GetRelatedSessionsReq ==
    \E d \in [session_external_id : Keys] :
        Read("main", "GetRelatedSessions", d, GetRelatedSessions(db, d))

NextRelated ==
    \/ UpsertSessionSharedReq
    \/ UpsertTimelineNodeSharedReq
    \/ LinkSessionToNodeSharedReq
    \/ GetRelatedSessionsReq

SpecRelated == InitMain /\ [][NextRelated]_vars

\* =================================================================== claims
\* what each upsert handler matches on and writes: label, key, fields
UpsertShape(b, h) ==
    CASE h = "UpsertUser" ->
           [label |-> "User", key |-> "external_id",
            fields |-> IF b = "main" THEN {"external_id", "metadata"}
                       ELSE {"external_id", "created_at", "metadata"}]
      [] h = "UpsertTimelineNode" ->
           [label |-> "TimelineNode", key |-> "external_id",
            fields |-> IF b = "main"
                       THEN {"external_id", "node_type", "title", "metadata"}
                       ELSE TimelineNodeFields_dev]
      [] h = "UpsertTool" ->
           [label |-> "Tool", key |-> "canonical_name",
            fields |-> {"canonical_name", "category", "metadata"}]
      [] h = "UpsertConcept" ->
           [label |-> "Concept", key |-> "name",
            fields |-> {"name", "category", "relevance_score"}]
      [] h = "UpsertEntity" ->
           [label |-> "Entity", key |-> "name",
            fields |-> {"name", "entity_type", "metadata"}]
      [] h = "UpsertWorkflowPattern" ->
           [label |-> "WorkflowPattern", key |-> "intent_category",
            fields |-> IF b = "main"
                       THEN {"intent_category", "occurrence_count", "metadata"}
                       ELSE WorkflowPatternFields_dev]

\* the match set of an upsert request on store s
MatchSet(b, h, d, s) ==
    LET sh == UpsertShape(b, h) IN
    {id \in NodeIds(s) :
        /\ Label(s, id) = sh.label
        /\ get_property(s, id, sh.key) = <<d[sh.key]>>
        /\ (b = "dev" /\ h = "UpsertWorkflowPattern")
               => get_property(s, id, "user_id") = <<d.user_id>>}

\* the given fields written over a property map, the others kept
Merged(old, fields, d) ==
    [f \in DOMAIN old \cup fields |-> IF f \in fields THEN d[f] ELSE old[f]]

UpsertHandlers ==
    {"UpsertUser", "UpsertTimelineNode", "UpsertTool", "UpsertConcept",
     "UpsertEntity"}

\* the nodes of a label that carry a key value
Carrying(s, label, key, value) ==
    {id \in NodeIds(s) : Label(s, id) = label /\ get_property(s, id, key) = <<value>>}

\* C1 - Upsert idempotence: when an Upsert* request repeats the handler and
\* the input of the committed request right before it, it succeeds, returns
\* the same node id, leaves exactly one node of the type carrying the key, and
\* that node's properties are the fields of the call.
C1_UpsertIdempotence ==
    [][ (resp.h \in UpsertHandlers /\ resp.err = ""
         /\ resp'.h = resp.h /\ resp'.d = resp.d /\ resp'.again)
        => LET sh  == UpsertShape(build, resp.h)
               key == resp.d[sh.key]
           IN  /\ resp'.err = ""
               /\ Len(resp'.out) = 1
               /\ resp'.out[1].id = resp.out[1].id
               /\ Carrying(db', sh.label, sh.key, key) = {resp'.out[1].id}
               /\ Props(db', resp'.out[1].id) = [f \in sh.fields |-> resp.d[f]]
               /\ resp'.out[1].props = Props(db', resp'.out[1].id)
      ]_vars

\* a committed UpsertUser that repeated the request before it
C1_Witness ==
    /\ resp.h = "UpsertUser" /\ resp.err = "" /\ resp.again
    /\ Len(db.nodes) = 2

\* C2 - Upsert insert-on-absent: an Upsert* request whose match set is empty
\* succeeds, inserts exactly one new node holding the given fields and
\* returns it (UpsertTool, UpsertConcept, UpsertEntity included).
C2_InsertOnAbsent ==
    [][ (resp'.h \in UpsertHandlers
         /\ MatchSet(build, resp'.h, resp'.d, db) = {})
        => LET sh == UpsertShape(build, resp'.h)
               id == Len(db.nodes) + 1
           IN  /\ resp'.err = ""
               /\ Len(db'.nodes) = id
               /\ db'.nodes[id] = [label |-> sh.label,
                                   props |-> [f \in sh.fields |-> resp'.d[f]]]
               /\ Len(resp'.out) = 1 /\ resp'.out[1].id = id
      ]_vars

\* C3 - Upsert merge on a single match: the matched node keeps its id, gets
\* exactly the given fields overwritten, keeps its other properties; every
\* other node and every edge that existed stays as it was (build "dev" adds
\* no edge at all; build "main" UpsertTimelineNode / UpsertWorkflowPattern
\* then append their UserOwnsNode / UserHasPattern edges).
C3_MergeSingleMatch ==
    [][ \A m \in NodeIds(db) :
        (resp'.h \in {"UpsertUser", "UpsertTimelineNode", "UpsertWorkflowPattern"}
         /\ resp'.err = ""
         /\ MatchSet(build, resp'.h, resp'.d, db) = {m})
        => LET sh == UpsertShape(build, resp'.h) IN
           /\ Len(resp'.out) = 1 /\ resp'.out[1].id = m
           /\ Len(db'.nodes) = Len(db.nodes)
           /\ Label(db', m) = Label(db, m)
           /\ Props(db', m) = Merged(Props(db, m), sh.fields, resp'.d)
           /\ \A o \in NodeIds(db) \ {m} : db'.nodes[o] = db.nodes[o]
           /\ \A e \in EdgeIds(db) : e \in EdgeIds(db') /\ db'.edges[e] = db.edges[e]
           /\ \A e \in EdgeIds(db') \ EdgeIds(db) :
                 /\ build = "main"
                 /\ db'.edges[e].to = m
                 /\ db'.edges[e].label \in {"UserOwnsNode", "UserHasPattern"}
      ]_vars

\* a TimelineNode inserted out-of-band with a property the handler does not
\* write was merged by UpsertTimelineNode: it kept the property and the
\* UserOwnsNode edge an earlier merge had added
C3_Witness ==
    /\ build = "main"
    /\ resp.h = "UpsertTimelineNode" /\ resp.err = ""
    /\ "legacy" \in DOMAIN Props(db, resp.out[1].id)
    /\ Props(db, resp.out[1].id).metadata = "m2"
    /\ Carrying(db, "User", "external_id", resp.d.user_key) = {}
    /\ Len(db.edges) = 1 /\ db.edges[1].to = resp.out[1].id

\* C4 - Ambiguous upsert: with two WorkflowPattern nodes in the match set the
\* request either (single-match mode) returns Ambiguous and changes nothing,
\* or (bulk mode) merges into both and returns both ids.
C4_AmbiguousUpsert ==
    [][ (resp'.h = "UpsertWorkflowPattern"
         /\ Cardinality(MatchSet(build, resp'.h, resp'.d, db)) >= 2)
        => LET sh == UpsertShape(build, resp'.h)
               ms == MatchSet(build, resp'.h, resp'.d, db)
           IN  \/ resp'.err = "Ambiguous" /\ db' = db
               \/ /\ resp'.err = ""
                  /\ \A m \in ms :
                        Props(db', m) = Merged(Props(db, m), sh.fields, resp'.d)
                  /\ {resp'.out[i].id : i \in DOMAIN resp'.out} = ms
      ]_vars

\* the fields the dev build declares SecondaryIndex::Unique
DeclaredUnique(f) ==
    /\ build = "dev"
    /\ f \in {"external_id", "canonical_slug", "canonical_name", "name",
               "screenshot_external_id"}

\* per type, a unique-indexed field value has at most one owner
UniqueHeld(s) ==
    \A id1, id2 \in NodeIds(s) :
        \A f \in DOMAIN Props(s, id1) \cap DOMAIN Props(s, id2) :
            (DeclaredUnique(f) /\ Label(s, id1) = Label(s, id2)
             /\ Props(s, id1)[f] = Props(s, id2)[f]) => id1 = id2

\* C5 - Unique index enforcement: an insert of a further node whose value of
\* a unique-indexed field an existing node of the type already has fails
\* with ConstraintViolation and commits nothing; the store keeps exactly one
\* node with that value.
C5_UniqueIndex ==
    [][ /\ UniqueHeld(db')
        /\ resp'.h = "add_n" =>
             \A f \in DOMAIN resp'.d.props :
               (DeclaredUnique(f)
                /\ Carrying(db, resp'.d.label, f, resp'.d.props[f]) # {})
               => /\ resp'.err = "ConstraintViolation"
                  /\ db' = db
                  /\ Cardinality(Carrying(db', resp'.d.label, f,
                                           resp'.d.props[f])) = 1
      ]_vars

\* a second User with an external_id already owned was refused
C5_Witness ==
    /\ build = "dev"
    /\ resp.h = "add_n" /\ resp.err = "ConstraintViolation"
    /\ resp.d.label = "User"
    /\ Carrying(db, "User", "external_id", resp.d.props.external_id) # {}

\* every edge joins two stored nodes
EdgesValid(s) ==
    \A e \in EdgeIds(s) :
        s.edges[e].from \in NodeIds(s) /\ s.edges[e].to \in NodeIds(s)

ExpandOut(s, S, L) ==
    {s.edges[e].to : e \in {x \in EdgeIds(s) :
                              s.edges[x].label = L /\ s.edges[x].from \in S}}
ExpandIn(s, S, L) ==
    {s.edges[e].from : e \in {x \in EdgeIds(s) :
                                s.edges[x].label = L /\ s.edges[x].to \in S}}

EdgeLabels ==
    {"BlockUsesTool", "RelatesTo", "ActivityInSession", "UserOwnsSession",
     "ActivityRelatedToConcept"}

\* C7 - Expand direction: out_node(L) yields exactly the to-endpoints of the
\* L edges whose from is in the current set and in_node(L) exactly the
\* from-endpoints of the L edges whose to is in the current set, in the
\* traversals of GetConceptConnections and GetCrossSessionConcepts too; when
\* LinkBlockToTool has created the one edge Block A -> Tool B of the store,
\* expand-out from A along BlockUsesTool is {B} and expand-in from B is {A}.
C7_ExpandDirection ==
    /\ \A S \in SUBSET NodeIds(db) :
          LET ids == SetToSeq(S) IN
          /\ \A L \in EdgeLabels :
               /\ Range(out_node(db, ids, L)) = ExpandOut(db, S, L)
               /\ Range(in_node(db, ids, L)) = ExpandIn(db, S, L)
          /\ Range(GetConceptConnections_activities(db, ids))
               = ExpandIn(db, S, "RelatesTo")
          /\ Range(GetConceptConnections_sessions(db, ids))
               = ExpandOut(db, S, "ActivityInSession")
          /\ Range(GetCrossSessionConcepts_sessions(db, ids))
               = ExpandOut(db, S, "UserOwnsSession")
          /\ Range(GetCrossSessionConcepts_activities(db, ids))
               = ExpandIn(db, S, "ActivityInSession")
          /\ Range(GetCrossSessionConcepts_concepts(db, ids))
               = ExpandOut(db, S, "ActivityRelatedToConcept")
    /\ (resp.h = "LinkBlockToTool" /\ resp.err = "" /\ Len(db.edges) = 1)
       => LET A == resp.out[1].from_node
              B == resp.out[1].to_node
          IN  /\ Label(db, A) = "Block"
              /\ Props(db, A).canonical_slug = resp.d.block_slug
              /\ Label(db, B) = "Tool"
              /\ Props(db, B).canonical_name = resp.d.tool_name
              /\ Range(out_node(db, <<A>>, "BlockUsesTool")) = {B}
              /\ Range(in_node(db, <<B>>, "BlockUsesTool")) = {A}

\* an Activity was linked to a Concept and the second traversal of
\* GetConceptConnections, seeded with the Concept, found the Activity
C7_Witness ==
    /\ resp.h = "LinkActivityToConcept" /\ resp.err = ""
    /\ Label(db, resp.out[1].to_node) = "Concept"
    /\ GetConceptConnections_activities(db, <<resp.out[1].to_node>>)
         = <<resp.out[1].from_node>>

\* the nodes of a type whose current value of the field is the given one
Holding(s, label, f, value) ==
    {id \in NodeIds(s) :
        Label(s, id) = label /\ get_property(s, id, f) = <<value>>}

IndexedFields == {"external_id", "user_key", "node_key", "name", "canonical_name"}

IndexConsistent(s) ==
    \A label \in {"User", "Session"}, f \in IndexedFields, value \in Keys :
        Indexed(f) =>
            Range(n_from_index(s, label, f, value)) = Holding(s, label, f, value)

\* C8 - Index consistency: after every committed insert or upsert a lookup
\* (type, field, value) in a secondary index returns exactly the nodes of
\* the type whose current value of the field is that value, also when an
\* upsert changed the indexed field; GetUserByExternalId right after an
\* upsert of a User with the same external_id returns exactly one record,
\* carrying the metadata of that upsert.
C8_IndexConsistency ==
    [][ /\ IndexConsistent(db')
        /\ (/\ build = "dev"
            /\ resp.h = "UpsertUser" /\ resp.err = ""
            /\ resp'.h = "GetUserByExternalId"
            /\ resp'.d.external_id = resp.d.external_id)
           => /\ resp'.err = ""
              /\ Len(resp'.out) = 1
              /\ resp'.out[1].props.external_id = resp.d.external_id
              /\ resp'.out[1].props.metadata = resp.d.metadata
      ]_vars

\* a User inserted out-of-band was upserted with new metadata and then looked
\* up through the index, while the store holds a Session indexed by user_key
C8_Witness ==
    /\ build = "dev"
    /\ resp.h = "GetUserByExternalId" /\ resp.err = ""
    /\ "legacy" \in DOMAIN Props(db, resp.out[1].id)
    /\ "metadata" \in DOMAIN resp.out[1].props
    /\ resp.out[1].props.metadata = "m2"
    /\ \E id \in NodeIds(db) :
          Label(db, id) = "Session" /\ Props(db, id).user_key = "k2"

\* the worker holds a write transaction
Open(p) == pc[p] = "commit"

\* C9 - Single writer: at most one write transaction is open at a time; while
\* one is open no other write handler is granted a transaction, so none
\* executes its reads or mutations before the first has committed or
\* aborted: the body of a handler runs over the committed store and its
\* commit installs exactly what the handler makes of that store.
C9_SingleWriter ==
    [][ /\ Cardinality({p \in Procs : Open(p)'}) <= 1
        /\ \A p \in Procs :
             /\ Open(p)' => writer' = p
             /\ Open(p) => \A q \in Procs \ {p} : ~ENABLED write_txn(q)
             /\ (pc[p] = "idle" /\ pc'[p] = "commit")
                => /\ \A q \in Procs \ {p} : ~Open(q)
                   /\ txn'[p] = WriteBody(build, req'[p].h, db, req'[p].d).s
             /\ (pc[p] = "commit" /\ pc'[p] = "idle")
                => db' = IF loc[p].err = ""
                         THEN WriteBody(build, req[p].h, db, req[p].d).s
                         ELSE db
      ]_vars

\* LinkSessionToNode holds the write transaction with an edge not yet
\* committed, after other write handlers have committed the nodes it joins
C9_Witness ==
    \E p \in Procs :
        /\ pc[p] = "commit" /\ req[p].h = "LinkSessionToNode"
        /\ writer = p
        /\ Len(txn[p].edges) = Len(db.edges) + 1
        /\ \E q \in Procs \ {p} : pc[q] = "idle" /\ ~ENABLED write_txn(q)

\* the worker is inside a read handler
Reading(p) == pc[p] \in {"t1", "t2", "t3"}

\* the read handler run to its return over one store
ReadHandler(h, s, d) ==
    IF h = "GetConceptConnections" THEN GetConceptConnections_dev(s, d)
    ELSE GetCrossSessionContext_dev(s, d)

\* C10 - Snapshot isolation for readers: a read handler's transaction is the
\* committed store at the moment it began, never a writer's uncommitted
\* transaction; it stays the same until the handler returns, every one of the
\* three traversals is evaluated against it, and the response is what the
\* handler makes of that one store, also when writers commit in between.
C10_SnapshotIsolation ==
    [][ \A p \in Procs :
          /\ (pc[p] = "idle" /\ Reading(p)') => txn'[p] = db
          /\ (Reading(p) /\ Reading(p)') => txn'[p] = txn[p]
          /\ (pc[p] = "t1" /\ pc'[p] = "t2")
             => loc'[p] = <<Traversal(req[p].h, 1, txn[p], req[p].d, loc[p]).ids>>
          /\ (pc[p] = "t2" /\ pc'[p] = "t3")
             => loc'[p] = Append(loc[p],
                    Traversal(req[p].h, 2, txn[p], req[p].d, loc[p]).ids)
          /\ (Reading(p) /\ pc'[p] = "idle")
             => resp' = Response(req[p].h, req[p].d,
                                 ReadHandler(req[p].h, txn[p], req[p].d))
      ]_vars

\* GetConceptConnections is before its third traversal; a RelatesTo edge to
\* its Concept was committed after its transaction began, and its second
\* traversal did not see it
C10_Witness ==
    \E p \in Procs :
        /\ pc[p] = "t3" /\ req[p].h = "GetConceptConnections"
        /\ loc[p][1] # <<>> /\ loc[p][2] = <<>>
        /\ in_node(db, loc[p][1], "RelatesTo") # <<>>

\* the worker is inside a write handler that holds its transaction
InFlight(p) == pc[p] \in {"run", "commit"}

\* C11 - Atomic visibility of bulk mutations: the committed store, which is
\* all a reader ever reads, changes only by the commit of a write handler and
\* then by all of the handler's mutations together: a LinkSessionToNode call
\* adds one edge per (Session, TimelineNode) pair it matched or, uncommitted,
\* none; an UpsertSession call makes its Session visible together with the
\* UserOwnsSession edge from every User it matched; GetSessionsByNode
\* answering while a handler is in flight sees none of that handler's edges.
C11_AtomicVisibility ==
    [][ /\ db' # db =>
            \E p \in Procs :
               LET h == req[p].h
                   d == req[p].d
               IN
               /\ pc[p] = "commit" /\ pc'[p] = "idle"
               /\ db' = StepBody(build, h, db, d).s
               /\ h = "LinkSessionToNode" =>
                    Len(db'.edges) - Len(db.edges)
                      = Cardinality(Carrying(db, "Session", "external_id",
                                             d.session_external_id))
                        * Cardinality(Carrying(db, "TimelineNode", "external_id",
                                               d.node_external_id))
               /\ h = "UpsertSession" =>
                    \A u \in Carrying(db, "User", "external_id", d.user_key) :
                      \E e \in EdgeIds(db') \ EdgeIds(db) :
                         /\ db'.edges[e].label = "UserOwnsSession"
                         /\ db'.edges[e].from = u
                         /\ Label(db', db'.edges[e].to) = "Session"
                         /\ Props(db', db'.edges[e].to).external_id
                              = d.external_id
        /\ \A p \in Procs :
             (InFlight(p) /\ resp' # resp /\ resp'.h = "GetSessionsByNode")
             => resp'.out = GetSessionsByNode(loc[p].begin, resp'.d).out
      ]_vars

\* LinkSessionToNode has added the first of its two edges in its transaction,
\* none of them is committed, and GetSessionsByNode has answered with no
\* session
C11_Witness ==
    \E p \in Procs :
        /\ pc[p] = "run" /\ req[p].h = "LinkSessionToNode"
        /\ loc[p].n = 2
        /\ Len(txn[p].edges) = 1
        /\ db.edges = <<>>
        /\ resp.h = "GetSessionsByNode" /\ resp.err = "" /\ resp.out = <<>>

\* C12 - Abort on error: when a write handler returns an error (a failed
\* lookup, a uniqueness conflict, an engine call that fails after earlier
\* add_edge calls of the loop were made, a failing commit) the committed
\* store after the call is the committed store before it, node for node,
\* edge for edge and index entry for index entry.
C12_AbortOnError ==
    [][ /\ (resp' # resp /\ resp'.err # "") => db' = db
        /\ \A p \in Procs :
             (InFlight(p) /\ pc'[p] = "idle" /\ resp'.err # "")
             => db' = loc[p].begin
      ]_vars

\* LinkSessionToNode returned the error of an engine call that failed after
\* its first add_edge: the store holds the Session and the two TimelineNodes
\* it matched and no edge
C12_Witness ==
    /\ resp.h = "LinkSessionToNode" /\ resp.err = "GraphError"
    /\ Cardinality(Carrying(db, "Session", "external_id",
                            resp.d.session_external_id)) = 1
    /\ Cardinality(Carrying(db, "TimelineNode", "external_id",
                            resp.d.node_external_id)) = 2
    /\ db.edges = <<>>

\* C13 - Concurrent upsert atomicity: whatever the interleaving of UpsertUser
\* requests, the existence scan and the upsert_n of a request run in one
\* exclusive write transaction: at its commit the committed store is still
\* the store it scanned and no other request is in flight; so the request
\* succeeds, exactly one User carries its external_id afterwards, it merged
\* into the User an earlier request with that key inserted, and two requests
\* with the same key that return one after the other return the same id.
C13_ConcurrentUpsert ==
    [][ \A p \in Procs :
          (pc[p] = "commit" /\ pc'[p] = "idle" /\ req[p].h = "UpsertUser")
          => LET key == req[p].d.external_id
                 had == Carrying(db, "User", "external_id", key)
             IN  /\ db = loc[p].begin
                 /\ \A q \in Procs \ {p} : pc[q] = "idle"
                 /\ resp'.err = "" /\ Len(resp'.out) = 1
                 /\ Carrying(db', "User", "external_id", key)
                      = {resp'.out[1].id}
                 /\ had # {} => had = {resp'.out[1].id}
                 /\ Props(db', resp'.out[1].id).metadata = req[p].d.metadata
                 /\ (resp.h = "UpsertUser" /\ resp.err = ""
                     /\ resp.d.external_id = key)
                    => resp'.out[1].id = resp.out[1].id
      ]_vars

\* an UpsertUser holds the write transaction with its merge into the User
\* that the request before it, with the same external_id and other metadata,
\* inserted as the second node of the store; a further request has to wait
C13_Witness ==
    \E p \in Procs :
        /\ pc[p] = "commit" /\ req[p].h = "UpsertUser"
        /\ resp.h = "UpsertUser" /\ resp.err = ""
        /\ resp.d.external_id = req[p].d.external_id
        /\ resp.d.metadata # req[p].d.metadata
        /\ resp.out[1].id = 2
        /\ Len(txn[p].nodes) = 2
        /\ Props(txn[p], 2).metadata = req[p].d.metadata
        /\ Props(db, 2).metadata = resp.d.metadata
        /\ \E q \in Procs \ {p} : pc[q] = "idle" /\ ~ENABLED write_txn_upsert(q)

SessionsOf(s, user_key) == Carrying(s, "Session", "user_key", user_key)

Min(a, b) == IF a < b THEN a ELSE b
Max(a, b) == IF a > b THEN a ELSE b

\* C15 - Order before range: GetSessionsByUser(user_key, start, end_range),
\* start <= end_range, returns the records at the positions start ..
\* end_range - 1 (from 0) of the user's n sessions in descending start_time:
\* min(end_range - start, max(0, n - start)) of them, each session before it
\* in the response or cut off in front has a start_time at least as high,
\* and exactly start sessions are cut off in front when the response is not
\* empty.
C15_OrderBeforeRange ==
    [][ resp'.h = "GetSessionsByUser" =>
          LET d     == resp'.d
              all   == SessionsOf(db, d.user_key)
              n     == Cardinality(all)
              out   == [i \in DOMAIN resp'.out |-> resp'.out[i].id]
              key(id) == Rank(get_property(db, id, "start_time"))
          IN  /\ resp'.err = ""
              /\ Len(out) = Min(d.end_range - d.start, Max(0, n - d.start))
              /\ Range(out) \subseteq all
              /\ \A i, j \in DOMAIN out : i < j => out[i] # out[j]
              /\ \A i, j \in DOMAIN out : i < j => key(out[i]) >= key(out[j])
              /\ out # <<>> =>
                   \E front \in SUBSET (all \ Range(out)) :
                      /\ Cardinality(front) = d.start
                      /\ \A x \in front : key(x) >= key(out[1])
                      /\ \A y \in all \ (front \cup Range(out)) :
                            key(y) <= key(out[Len(out)])
      ]_vars

\* of two sessions the one stored second has the later start_time, and
\* GetSessionsByUser(0, 1) returned it
C15_Witness ==
    /\ resp.h = "GetSessionsByUser" /\ resp.err = ""
    /\ resp.d.start = 0 /\ resp.d.end_range = 1
    /\ Len(db.nodes) = 2
    /\ get_property(db, 1, "start_time") = <<"t1">>
    /\ get_property(db, 2, "start_time") = <<"t2">>
    /\ Len(resp.out) = 1 /\ resp.out[1].id = 2

\* the collection a search handler names
Collection(h) ==
    IF h = "SearchSimilarConcepts" THEN "ConceptEmbedding" ELSE "SessionEmbedding"

SearchHandlers == {"SearchSimilarConcepts", "SearchSimilarSessions"}

\* at most k results, all of the named collection, in non-increasing score
SearchOrdered(s, r) ==
    /\ r.err = ""
    /\ Len(r.out) <= r.d.limit
    /\ \A i \in DOMAIN r.out :
         /\ r.out[i].id \in VectorIds(s, Collection(r.h))
         /\ r.out[i].label = Collection(r.h)
         /\ r.out[i].data = s.vectors[r.out[i].id].data
    /\ \A i, j \in DOMAIN r.out :
         i < j => /\ r.out[i].id # r.out[j].id
                  /\ ScoreGE(r.out[i].score, r.out[j].score)

\* the search asks for a result and its collection holds the query vector
HoldsQuery(s, r) ==
    /\ r.d.limit >= 1
    /\ \E v \in VectorIds(s, Collection(r.h)) :
          s.vectors[v].data = r.d.query_embedding

Holds(s, label, f, value) ==
    \E id \in NodeIds(s) : Label(s, id) = label /\ get_property(s, id, f) = <<value>>

LookupHandlers ==
    {"GetUserByExternalId", "GetToolByName", "LinkBlockToTool",
     "LinkActivityToConcept"}

\* a record the request names is not in the store
Missing(s, h, d) ==
    CASE h = "GetUserByExternalId" ->
           ~Holds(s, "User", "external_id", d.external_id)
      [] h = "GetToolByName" ->
           ~Holds(s, "Tool", "canonical_name", d.canonical_name)
      [] h = "LinkBlockToTool" ->
           \/ ~Holds(s, "Block", "canonical_slug", d.block_slug)
           \/ ~Holds(s, "Tool", "canonical_name", d.tool_name)
      [] h = "LinkActivityToConcept" ->
           \/ ~Holds(s, "Activity", "screenshot_external_id",
                     d.screenshot_external_id)
           \/ ~Holds(s, "Concept", "name", d.concept_name)
      [] OTHER -> FALSE

\* the missing record is one the handler resolves with n_from_index and
\* collect_to_obj: every lookup of build "dev", the Concept of
\* LinkActivityToConcept in build "main"
MissingByIndex(b, s, h, d) ==
    IF b = "dev" THEN Missing(s, h, d)
    ELSE h = "LinkActivityToConcept" /\ ~Holds(s, "Concept", "name", d.concept_name)

\* C17 - NotFound on missing lookup, as claimed: a handler that resolves a
\* single record by index or key (GetUserByExternalId, GetToolByName,
\* LinkBlockToTool, LinkActivityToConcept) returns a NotFound error, not a
\* success response with an empty payload, when no record has the requested
\* value, and the store is unchanged.
C17_NotFoundOnMissing ==
    [][ (resp'.h \in LookupHandlers /\ Missing(db, resp'.h, resp'.d))
        => (resp'.err = "NotFound" /\ db' = db)
      ]_vars

\* C17, amended: when no record has the requested value the store is
\* unchanged; a handler that resolves the record with n_from_index and
\* collect_to_obj returns a NotFound error; the handlers of build "main"
\* that resolve it by a filtered scan (GetUserByExternalId, the Activity of
\* LinkActivityToConcept) return a success response with an empty payload.
C17_NotFoundOnMissing_Amended ==
    [][ (resp'.h \in LookupHandlers /\ Missing(db, resp'.h, resp'.d))
        => /\ db' = db
           /\ IF MissingByIndex(build, db, resp'.h, resp'.d)
              THEN resp'.err = "NotFound"
              ELSE resp'.err = "" /\ resp'.out = <<>>
      ]_vars

\* LinkBlockToTool of build "dev" found its Block and not its Tool, in a
\* store that holds another Tool, and returned NotFound
C17_Witness ==
    /\ build = "dev"
    /\ resp.h = "LinkBlockToTool" /\ resp.err = "NotFound"
    /\ Holds(db, "Block", "canonical_slug", resp.d.block_slug)
    /\ ~Holds(db, "Tool", "canonical_name", resp.d.tool_name)
    /\ \E id \in NodeIds(db) : Label(db, id) = "Tool"

\* the types a handler scans
Scanned(h) ==
    IF h = "UpsertUser" THEN {"User"} ELSE {"Session", "TimelineNode"}

\* some record that reached a filter stage of the request was an error
ReachedFilterAsError(s, r) ==
    \E id \in r.d.failed : Label(s, id) \in Scanned(r.h)

\* C18 - No silent skipping: when a record reaching a filter stage is an
\* error, the handler returns that error and commits nothing; the failed
\* record is never treated as a non-matching record and dropped.
C18_NoSilentSkipping ==
    [][ (resp'.h \in {"UpsertUser", "LinkSessionToNode"}
         /\ "failed" \in DOMAIN resp'.d
         /\ ReachedFilterAsError(db, resp'))
        => (resp'.err = "GraphError" /\ db' = db)
      ]_vars

\* the Steps holding both the session_id and the action_type of a request
StepsLike(s, d) ==
    {id \in NodeIds(s) :
        /\ Label(s, id) = "Step"
        /\ get_property(s, id, "session_id") = <<d.session_id>>
        /\ get_property(s, id, "action_type") = <<d.action_type>>}

\* C19 - Composite uniqueness on add_n: a CreateStep whose session_id and
\* action_type both equal those of an existing Step fails with
\* ConstraintViolation and inserts nothing; a CreateStep that differs from
\* every existing Step in at least one of the two fields inserts its Step.
C19_CompositeUniqueness ==
    [][ resp'.h = "CreateStep" =>
          IF StepsLike(db, resp'.d) # {}
          THEN resp'.err = "ConstraintViolation" /\ db' = db
          ELSE /\ resp'.err = ""
               /\ Len(db'.nodes) = Len(db.nodes) + 1
               /\ SubSeq(db'.nodes, 1, Len(db.nodes)) = db.nodes
               /\ StepsLike(db', resp'.d) = {Len(db'.nodes)}
               /\ resp'.out[1].id = Len(db'.nodes)
      ]_vars

\* a CreateStep failed with ConstraintViolation in a store that holds two
\* Steps of one session_id with different action_type, the request differing
\* from the Step it collides with in a field outside the list
C19_Witness ==
    /\ resp.h = "CreateStep" /\ resp.err = "ConstraintViolation"
    /\ \E a, b \in NodeIds(db) :
          /\ Label(db, a) = "Step" /\ Label(db, b) = "Step"
          /\ Props(db, a).session_id = Props(db, b).session_id
          /\ Props(db, a).action_type # Props(db, b).action_type
    /\ \A id \in StepsLike(db, resp.d) : Props(db, id).metadata # resp.d.metadata
    /\ Cardinality(StepsLike(db, resp.d)) = 1

\* the type an upsert handler writes and the indexed field it matches on
UpsertType(h) ==
    CASE h = "UpsertUser" -> "User"
      [] h = "UpsertTimelineNode" -> "TimelineNode"
      [] h = "UpsertSession" -> "Session"
      [] h = "UpsertConcept" -> "Concept"
      [] h = "UpsertEntity" -> "Entity"

UpsertKey(h) ==
    IF h \in {"UpsertConcept", "UpsertEntity"} THEN "name" ELSE "external_id"

NodeTypes == {"User", "TimelineNode", "Session", "Concept", "Entity", "Activity"}

\* C20 - Indices are scoped per (type, field): an upsert of a value no node
\* of its own type holds inserts its node whatever nodes of other types hold
\* that value of the same-named indexed field; n_from_index(T, field, v)
\* never returns a node whose type is not T, so GetUserByExternalId answers
\* with a User and LinkActivityToEntity links to an Entity.
C20_IndexScope ==
    [][ /\ ( /\ build = "dev"
             /\ resp'.h \in {"UpsertUser", "UpsertTimelineNode", "UpsertSession",
                             "UpsertConcept", "UpsertEntity"}
             /\ ~Holds(db, UpsertType(resp'.h), UpsertKey(resp'.h),
                       resp'.d[UpsertKey(resp'.h)]) )
           => /\ resp'.err = ""
              /\ Len(db'.nodes) = Len(db.nodes) + 1
              /\ Label(db', Len(db'.nodes)) = UpsertType(resp'.h)
        /\ \A T \in NodeTypes, f \in {"external_id", "name"}, v \in Keys :
              \A i \in DOMAIN n_from_index(db', T, f, v) :
                  Label(db', n_from_index(db', T, f, v)[i]) = T
        /\ (resp'.h = "GetUserByExternalId" /\ resp'.err = "")
           => /\ Len(resp'.out) = 1
              /\ resp'.out[1].label = "User"
              /\ resp'.out[1].props.external_id = resp'.d.external_id
        /\ resp'.h = "LinkActivityToEntity"
           => \A e \in DOMAIN db'.edges :
                 db'.edges[e].label = "ActivityMentionsEntity"
                 => Label(db', db'.edges[e].to) = "Entity"
      ]_vars

\* a User, a TimelineNode and a Session hold the same external_id, the
\* TimelineNode written first, and GetUserByExternalId answered with the User
C20_Witness ==
    /\ build = "dev"
    /\ resp.h = "GetUserByExternalId" /\ resp.err = ""
    /\ resp.out[1].label = "User"
    /\ Label(db, 1) = "TimelineNode"
    /\ \A T \in {"User", "TimelineNode", "Session"} :
          Holds(db, T, "external_id", resp.d.external_id)

\* the handler on worker p returns in this step
Returns(p) == pc[p] \in {"run", "commit"} /\ pc'[p] = "idle"

\* C21 - Success only after commit: a write handler returns a success
\* response only with its transaction committed, the store then being the
\* one its transaction held; when the commit fails it returns a transaction
\* error with no payload and the store is as it was; the store changes in no
\* other step.
C21_SuccessOnlyAfterCommit ==
    [][ /\ \A p \in Procs :
             Returns(p) =>
               /\ resp'.err = "" =>
                    /\ pc[p] = "commit" /\ loc[p].k = loc[p].n
                    /\ db' = txn[p]
                    /\ resp'.out = loc[p].out
               /\ resp'.err # "" => db' = db /\ resp'.out = <<>>
        /\ db' # db => \E p \in Procs : Returns(p) /\ resp'.err = ""
      ]_vars

\* the commit of an UpsertSession that had inserted its Session and an edge
\* from the User failed: the answer is a transaction error and the store
\* holds no Session and no edge
C21_Witness ==
    /\ resp.h = "UpsertSession" /\ resp.err = "TransactionError"
    /\ Holds(db, "User", "external_id", resp.d.user_key)
    /\ ~Holds(db, "Session", "external_id", resp.d.external_id)
    /\ db.edges = <<>>
    /\ \A p \in Procs : pc[p] = "idle"

\* C22 - Readers never block: whatever write transaction is open and whatever
\* read handlers are running, an idle worker can begin a read handler, and a
\* read handler that has begun can take its remaining step to its return: no
\* step of a read handler waits for a writer to commit or abort, or for
\* another reader.
C22_ReadersNeverBlock ==
    \A p \in Procs :
        /\ pc[p] = "idle" => ENABLED read_txn_begin(p)
        /\ pc[p] = "read" => ENABLED Answer(p)

\* a worker holds the write transaction with an uncommitted Concept; since
\* it was opened a read handler has begun on another worker, after an
\* earlier read handler had answered
C22_Witness ==
    \E p, q \in Procs :
        /\ p # q
        /\ writer = q /\ pc[q] = "commit" /\ txn[q] # db
        /\ pc[p] = "read" /\ loc[p].writer = q
        /\ resp.h = "GetConceptsByCategory" /\ resp.err = ""

\* the worker holds the record of a request
Recorded(p) == DOMAIN loc[p] # {}

\* a step of the lifecycle of one pipeline; only a mutation chain goes on
\* from Materialized, to the outcome of the transaction
Lifecycle(a, b, mutates) ==
    \/ a = b
    \/ a = "None" /\ b = "Seeded"
    \/ a = "Seeded" /\ b \in {"Transformed", "Materialized", "Aborted"}
    \/ a = "Transformed" /\ b \in {"Transformed", "Materialized", "Aborted"}
    \/ a = "Materialized" /\ mutates /\ b \in {"Committed", "Aborted"}

Mutates(ops, i) == \E k \in DOMAIN ops : ops[k].pipe = i /\ ops[k].mutates

Closes(p) == pc[p] \in {"held", "commit"} /\ pc'[p] = "idle"

KeyedUpserts ==
    {"UpsertUser", "UpsertTimelineNode", "UpsertSession", "UpsertActivity",
     "UpsertEntity", "UpsertConcept", "UpsertBlock", "UpsertTool"}

MatchType(h) ==
    CASE h = "UpsertUser" -> "User"
      [] h = "UpsertTimelineNode" -> "TimelineNode"
      [] h = "UpsertSession" -> "Session"
      [] h = "UpsertActivity" -> "Activity"
      [] h = "UpsertEntity" -> "Entity"
      [] h = "UpsertConcept" -> "Concept"
      [] h = "UpsertBlock" -> "Block"
      [] h = "UpsertTool" -> "Tool"

MatchKey(h) ==
    CASE h \in {"UpsertUser", "UpsertTimelineNode", "UpsertSession"} -> "external_id"
      [] h = "UpsertActivity" -> "screenshot_external_id"
      [] h \in {"UpsertEntity", "UpsertConcept"} -> "name"
      [] h = "UpsertBlock" -> "canonical_slug"
      [] h = "UpsertTool" -> "canonical_name"

\* the match-key values the nodes of the handler's type hold
KeysOf(s, h) ==
    {v \in Keys : Carrying(s, MatchType(h), MatchKey(h), v) # {}}

CountHandlers == {"GetUserCount", "GetSessionCount", "GetActivityCount"}

CountedBy(h) ==
    CASE h = "GetUserCount" -> "UpsertUser"
      [] h = "GetSessionCount" -> "UpsertSession"
      [] h = "GetActivityCount" -> "UpsertActivity"

\* C25 - Upsert key uniqueness: the store starts empty; every committed
\* Upsert* call adds its key to the keys of its type and to no other type,
\* whatever its other fields; at all times at most one node of a type holds
\* a match-key value; a count handler returns the number of distinct keys
\* its type holds, which is the number of distinct keys upserted.
C25_UpsertKeyUniqueness ==
    /\ db = EmptyStore
    /\ [][ /\ \A h \in KeyedUpserts : \A v \in Keys :
                Cardinality(Carrying(db', MatchType(h), MatchKey(h), v)) <= 1
           /\ (resp'.h \in KeyedUpserts /\ resp'.err = "") =>
                \A h \in KeyedUpserts :
                    KeysOf(db', h) =
                       KeysOf(db, h) \cup (IF h = resp'.h
                                           THEN {resp'.d[MatchKey(h)]} ELSE {})
           /\ resp'.h \in CountHandlers =>
                /\ db' = db
                /\ resp'.err = ""
                /\ resp'.out =
                      <<[count |-> Cardinality(KeysOf(db, CountedBy(resp'.h)))]>>
         ]_vars

\* a Session upserted again under its key, with a second node in the store:
\* still one Session of that key
C25_Witness ==
    /\ resp.h = "UpsertSession" /\ resp.err = "" /\ resp.again
    /\ Len(db.nodes) = 2
    /\ Cardinality(Carrying(db, "Session", "external_id", resp.d.external_id)) = 1

\* the edges of a store that end at a node
EdgesTo(s, id) == {e \in DOMAIN s.edges : s.edges[e].to = id}

\* C26 - Read-your-writes inside a write transaction: in UpsertSession and
\* UpsertTimelineNode every add_edge after the upsert_n ends at the node of
\* that upsert_n, which the transaction holds, and succeeds also when the
\* committed store does not hold the node yet; until the commit the committed
\* store has neither the node's changes nor the edges, and the commit
\* writes the node and all its edges in one step.
C26_ReadYourWrites ==
    [][ \A p \in Procs :
          /\ pc[p] = "edges" =>
               /\ loc[p].pairs[loc[p].k + 1][2] = loc[p].node
               /\ loc[p].node \in NodeIds(txn[p])
               /\ pc'[p] # "idle"
               /\ db' = db
               /\ loc'[p].k = loc[p].k + 1 =>
                     /\ Len(txn'[p].edges) = Len(txn[p].edges) + 1
                     /\ txn'[p].edges[Len(txn'[p].edges)].to = loc[p].node
                     /\ txn'[p].nodes = txn[p].nodes
          /\ (pc[p] = "commit" /\ req[p].h \in {"UpsertSession", "UpsertTimelineNode"}
              /\ pc'[p] = "idle") =>
               IF resp'.err = ""
               THEN /\ db' = txn[p]
                    /\ loc[p].node \in NodeIds(db')
                    /\ Cardinality(EdgesTo(db', loc[p].node))
                          = Cardinality(EdgesTo(db, loc[p].node)) + Len(loc[p].pairs)
               ELSE db' = db
      ]_vars

\* the Session inserted by upsert_n is in the transaction, not in the
\* committed store, and the UserOwnsSession edge to it has been added
C26_Witness ==
    \E p \in Procs :
        /\ pc[p] = "commit" /\ req[p].h = "UpsertSession"
        /\ loc[p].node \notin NodeIds(db)
        /\ EdgesTo(txn[p], loc[p].node) # {}
        /\ db.edges = <<>>

\* the handler of worker p is about to deserialize a body it cannot
Malformed(p) ==
    /\ pc[p] = "received"
    /\ Deserializes(req[p].h)
    /\ ~(InputFields(req[p].h) \subseteq DOMAIN req[p].d)

\* C27 - Malformed input: a handler whose request body fails to deserialize
\* returns a serialization error as its next step, without having begun a
\* read or a write transaction, and the store is unchanged; a handler that
\* holds a transaction has deserialized its body or has no input.
C27_MalformedInput ==
    [][ \A p \in Procs :
          /\ (Malformed(p) /\ pc'[p] # pc[p]) =>
               /\ pc'[p] = "idle"
               /\ resp'.h = req[p].h /\ resp'.err = "SerializationError"
               /\ resp'.out = <<>>
               /\ db' = db /\ writer' = writer /\ txn' = txn /\ loc' = loc
          /\ Malformed(p) => (writer' # p /\ db' = db)
          /\ pc'[p] = "txn" =>
               \/ ~Deserializes(req'[p].h)
               \/ DOMAIN req'[p].d = InputFields(req'[p].h)
      ]_vars

\* LinkSessionToNode answered a body without node_external_id with a
\* serialization error while a Session and a TimelineNode it could link are
\* in the store, unlinked
C27_Witness ==
    /\ resp.h = "LinkSessionToNode" /\ resp.err = "SerializationError"
    /\ resp.d = [session_external_id |-> "k1"]
    /\ Len(db.nodes) = 2 /\ db.edges = <<>>
    /\ \A p \in Procs : pc[p] = "idle"

\* the node type a backfill handler lists
BackfillType(h) ==
    IF h = "GetAllSessionsForBackfill" THEN "Session" ELSE "Activity"

\* C28 - Pagination completeness: every page of GetAllSessionsForBackfill and
\* GetAllActivitiesForBackfill for the range (next, next + k) holds at most k
\* records; when the pages (0,k), (k,2k), ... up to the first short page
\* were read from an unchanged store, their concatenation holds every node of
\* the type exactly once.
C28_PaginationCompleteness ==
    [][ /\ (~NoPaging /\ ~loc[1].done /\ loc'[1] # loc[1]) =>
             /\ Len(resp'.out) <= resp'.d.end_range - resp'.d.start
             /\ resp'.d.start = loc[1].next
             /\ resp'.d.end_range = loc[1].next + loc[1].k
             /\ resp'.err = ""
        /\ (~NoPaging /\ ~loc[1].done /\ loc'[1].done /\ loc'[1].same) =>
             LET acc   == loc'[1].acc
                 nodes == {id \in NodeIds(db) : Label(db, id) = BackfillType(loc[1].h)}
             IN  /\ {acc[i] : i \in DOMAIN acc} = nodes
                 /\ Len(acc) = Cardinality(nodes)
      ]_vars

\* two Sessions read in two full pages of size 1 and an empty third page
C28_Witness ==
    /\ ~NoPaging
    /\ loc[1].h = "GetAllSessionsForBackfill" /\ loc[1].k = 1
    /\ loc[1].done /\ loc[1].same /\ loc[1].next = 3
    /\ Len(loc[1].acc) = 2

\* the Sessions a User of the key owns
OwnedSessions(s, user_key) ==
    {id \in NodeIds(s) :
        \E e \in DOMAIN s.edges :
            /\ s.edges[e].label = "UserOwnsSession" /\ s.edges[e].to = id
            /\ get_property(s, s.edges[e].from, "external_id") = <<user_key>>}

\* a group as AggregateSessionsByWorkflowSessionsReturnType declares it
IsGroup(g) == {"key", "count", "items"} \subseteq DOMAIN g

RECURSIVE SumCounts(_)
SumCounts(groups) ==
    IF groups = <<>> THEN 0 ELSE Head(groups).count + SumCounts(Tail(groups))

\* C29 - Aggregate partition: the response of AggregateSessionsByWorkflow is
\* a list of groups by workflow_primary; every Session the user owns is in
\* the member list of exactly one group, the group of its workflow_primary;
\* each group's count is the length of its member list; the counts sum to
\* the number of the user's Sessions.
C29_AggregatePartition ==
    (resp.h = "AggregateSessionsByWorkflow" /\ resp.err = "") =>
        LET groups == resp.out
            owned  == OwnedSessions(db, resp.d.user_key)
        IN  /\ \A i \in DOMAIN groups : IsGroup(groups[i])
            /\ \A i \in DOMAIN groups : groups[i].count = Len(groups[i].items)
            /\ \A id \in owned :
                  Cardinality({i \in DOMAIN groups :
                      \E j \in DOMAIN groups[i].items :
                          groups[i].items[j].id = id}) = 1
            /\ \A i \in DOMAIN groups : \A j \in DOMAIN groups[i].items :
                  /\ groups[i].items[j].id \in owned
                  /\ get_property(db, groups[i].items[j].id, "workflow_primary")
                        = <<groups[i].key>>
            /\ SumCounts(groups) = Cardinality(owned)

\* the place of an id in a sequence that holds it
Place(ids, id) == CHOOSE i \in DOMAIN ids : ids[i] = id

\* C30 - Stable sort with nulls low: in a response of GetSessionsByUser two
\* sessions of equal start_time, or both without one, are in the order the
\* filter yielded them in before the sort; no session without a start_time
\* is before one that has a start_time, and when one without is listed every
\* session of the user that has a start_time is before it or cut off in
\* front.
C30_StableNullsLow ==
    [][ resp'.h = "GetSessionsByUser" =>
          LET d      == resp'.d
              before == filter_ref(db, n_from_type(db, "Session"),
                                   "user_key", d.user_key)
              out    == [i \in DOMAIN resp'.out |-> resp'.out[i].id]
              key(id) == get_property(db, id, "start_time")
              dated  == {id \in Range(before) : key(id) # <<>>}
          IN  /\ \A i, j \in DOMAIN out :
                    (i < j /\ key(out[i]) = key(out[j]))
                    => Place(before, out[i]) < Place(before, out[j])
              /\ \A i, j \in DOMAIN out :
                    (i < j /\ key(out[i]) = <<>>) => key(out[j]) = <<>>
              /\ \A j \in DOMAIN out :
                    key(out[j]) = <<>> => Cardinality(dated) <= d.start + j - 1
      ]_vars

\* of three sessions the first stored has no start_time and the other two
\* have the same: the response lists the two in their stored order, then the
\* one without
C30_Witness ==
    /\ resp.h = "GetSessionsByUser" /\ resp.d.start = 0
    /\ Len(resp.out) = 3
    /\ <<resp.out[1].id, resp.out[2].id, resp.out[3].id>> = <<2, 3, 1>>
    /\ get_property(db, 1, "start_time") = <<>>
    /\ get_property(db, 2, "start_time") = get_property(db, 3, "start_time")

\* the handlers not marked is_write that are run step by step
NotWriteHandlers == {"HealthCheck", "GetCrossSessionContext", "GetRelatedSessions"}

\* C31 - Read handlers are read-only: a handler not marked is_write never
\* holds the write transaction; when it is entered and when it returns, with
\* its payload or with an error, the nodes, edges and index entries of the
\* store, the holder of the write transaction and the transactions of the
\* other workers are what they were.
C31_ReadHandlersReadOnly ==
    /\ [](\A p \in Procs : pc[p] = "read" => writer # p)
    /\ [][ \A p \in Procs :
             ((pc[p] = "idle" /\ pc'[p] = "read") \/ (pc[p] = "read" /\ pc'[p] = "idle"))
             => /\ db' = db
                /\ writer' = writer
                /\ \A q \in Procs \ {p} : txn'[q] = txn[q] /\ pc'[q] = pc[q]
                /\ pc[p] = "read" =>
                      /\ req[p].h \in NotWriteHandlers
                      /\ resp'.h = req[p].h
                      /\ resp'.err \in {"", "NotFound"} ]_vars

\* GetRelatedSessions found no Session of the key and returned the error
\* while the first worker holds the write transaction with a User not yet
\* committed; the store holds what it held
C31_Witness ==
    /\ resp.h = "GetRelatedSessions" /\ resp.err = "NotFound"
    /\ writer = 1 /\ pc[1] = "commit"
    /\ Len(txn[1].nodes) = Len(db.nodes) + 1
    /\ Len(db.nodes) >= 1

\* the two fan-out link handlers: edge label, and the type and key of each end
FanOut ==
    [LinkSessionToNode |->
        [label |-> "SessionInNode",
         from  |-> <<"Session", "external_id", "session_external_id">>,
         to    |-> <<"TimelineNode", "external_id", "node_external_id">>],
     LinkActivityToSession |->
        [label |-> "ActivityInSession",
         from  |-> <<"Activity", "screenshot_external_id",
                     "screenshot_external_id">>,
         to    |-> <<"Session", "external_id", "session_external_id">>]]

\* the records of a store an end of a link call names
Ends(s, end, d) == Carrying(s, end[1], end[2], d[end[3]])

\* C32 - Fan-out link count: a LinkSessionToNode (LinkActivityToSession) call
\* over the set S of records matching its first key and the set N matching
\* its second succeeds, keeps every node and every edge already stored, and
\* adds |S| x |N| edges of its label: exactly one per pair (s, n), from s to
\* n; when either set is empty it adds none and still returns success.
C32_FanOutLinkCount ==
    [][ resp'.h \in DOMAIN FanOut =>
          LET f   == FanOut[resp'.h]
              S   == Ends(db, f.from, resp'.d)
              N   == Ends(db, f.to, resp'.d)
              new == DOMAIN db'.edges \ DOMAIN db.edges
          IN  /\ resp'.err = "" /\ resp'.out = <<>>
              /\ db'.nodes = db.nodes
              /\ SubSeq(db'.edges, 1, Len(db.edges)) = db.edges
              /\ Cardinality(new) = Cardinality(S) * Cardinality(N)
              /\ \A e \in new : /\ db'.edges[e].label = f.label
                                /\ db'.edges[e].from \in S
                                /\ db'.edges[e].to \in N
              /\ \A s \in S : \A n \in N :
                    Cardinality({e \in new : /\ db'.edges[e].from = s
                                             /\ db'.edges[e].to = n}) = 1
      ]_vars

\* two Sessions and two TimelineNodes of the keys of the call: four edges
C32_Witness ==
    /\ resp.h = "LinkSessionToNode" /\ resp.err = ""
    /\ Cardinality(Ends(db, FanOut[resp.h].from, resp.d)) = 2
    /\ Cardinality(Ends(db, FanOut[resp.h].to, resp.d)) = 2
    /\ Len(db.edges) = 4

\* the upserts that link their record to its owner: edge label, user field
OwnerLink ==
    [UpsertSession |-> [label |-> "UserOwnsSession", user |-> "user_key"],
     UpsertBlock   |-> [label |-> "UserHasBlock", user |-> "user_id"]]

\* the edges of a label from the Users of a key to a record
Parallel(s, label, key, id) ==
    {e \in DOMAIN s.edges :
        /\ s.edges[e].label = label
        /\ s.edges[e].from \in Carrying(s, "User", "external_id", key)
        /\ s.edges[e].to = id}

\* C33 - Edges accumulate on repeated upsert: a committed UpsertSession
\* (UpsertBlock) call adds, for each User carrying its user key, exactly one
\* new UserOwnsSession (UserHasBlock) edge to its record, whether the record
\* was inserted or already existed, and removes no edge; no other call
\* changes the edges; so the edges from a User to a Session number the
\* calls made for them, and GetSessionsByUser lists the Session once per
\* edge.
C33_EdgesAccumulate ==
    [][ /\ (resp'.h \in DOMAIN OwnerLink /\ resp'.err = "") =>
             LET link == OwnerLink[resp'.h]
                 key  == resp'.d[link.user]
                 id   == resp'.out[1].id
                 was  == Parallel(db, link.label, key, id)
             IN  /\ SubSeq(db'.edges, 1, Len(db.edges)) = db.edges
                 /\ Len(db'.edges) = Len(db.edges)
                       + Cardinality(Carrying(db', "User", "external_id", key))
                 /\ \A u \in Carrying(db', "User", "external_id", key) :
                       Cardinality({e \in Parallel(db', link.label, key, id) :
                                       db'.edges[e].from = u})
                       = Cardinality({e \in was : db.edges[e].from = u}) + 1
        /\ ~(resp'.h \in DOMAIN OwnerLink /\ resp'.err = "") =>
             db'.edges = db.edges
        /\ resp'.h = "GetSessionsByUser" =>
             /\ resp'.err = ""
             /\ \A id \in NodeIds(db) :
                   Cardinality({i \in DOMAIN resp'.out : resp'.out[i].id = id})
                   = Cardinality(Parallel(db, "UserOwnsSession",
                                          resp'.d.user_key, id))
      ]_vars

\* one Session upserted three times for one User: listed three times
C33_Witness ==
    /\ resp.h = "GetSessionsByUser" /\ resp.err = ""
    /\ Len(resp.out) = 3
    /\ \A i \in DOMAIN resp.out : resp.out[i].id = resp.out[1].id
    /\ Cardinality({id \in NodeIds(db) : Label(db, id) = "Session"}) = 1

\* the WorkflowPatterns of a store that carry an intent category
PatternsOf(s, c) == Carrying(s, "WorkflowPattern", "intent_category", c)

\* C34 - WorkflowPattern match key: a committed UpsertWorkflowPattern call
\* inserts a node only when no WorkflowPattern carries its intent_category,
\* whoever upserted it; otherwise it overwrites occurrence_count and metadata
\* of that one node with its own values; either way it links the calling
\* User to that node; at all times at most one WorkflowPattern carries an
\* intent_category, and GetWorkflowPatterns shows a user the values written
\* last by any user.
C34_PatternMatchKey ==
    [][ /\ \A c \in Keys : Cardinality(PatternsOf(db', c)) <= 1
        /\ (resp'.h = "UpsertWorkflowPattern" /\ resp'.err = "") =>
             LET d  == resp'.d
                 id == resp'.out[1].id
             IN  /\ PatternsOf(db', d.intent_category) = {id}
                 /\ PatternsOf(db, d.intent_category) # {} =>
                       /\ PatternsOf(db, d.intent_category) = {id}
                       /\ Len(db'.nodes) = Len(db.nodes)
                 /\ Props(db', id) = [intent_category |-> d.intent_category,
                                      occurrence_count |-> d.occurrence_count,
                                      metadata |-> d.metadata]
                 /\ \A c \in Keys \ {d.intent_category} :
                       \A n \in PatternsOf(db, c) : Props(db', n) = Props(db, n)
                 /\ \A u \in Carrying(db', "User", "external_id", d.user_id) :
                       \E e \in DOMAIN db'.edges \ DOMAIN db.edges :
                          db'.edges[e] = [label |-> "UserHasPattern", from |-> u,
                                          to |-> id, props |-> <<>>]
        /\ resp'.h = "GetWorkflowPatterns" =>
             /\ resp'.err = ""
             /\ \A i \in DOMAIN resp'.out :
                   /\ resp'.out[i].props = Props(db, resp'.out[i].id)
                   /\ PatternsOf(db, resp'.out[i].props.intent_category)
                         = {resp'.out[i].id}
      ]_vars

\* user k1 is shown the count and metadata that user k2 sent for the
\* category, on the node both are linked to
C34_Witness ==
    /\ resp.h = "GetWorkflowPatterns" /\ resp.d.user_id = "k1"
    /\ resp.out # <<>>
    /\ resp.out[1].props.metadata = "m2"
    /\ resp.out[1].props.occurrence_count = "2"
    /\ \E e \in DOMAIN db.edges :
          /\ db.edges[e].label = "UserHasPattern"
          /\ db.edges[e].to = resp.out[1].id
          /\ db.edges[e].from
                \in Carrying(db, "User", "external_id", "k2")

\* two responses answer the same page
SamePage(a, b) == a.d.start = b.d.start /\ a.d.end_range = b.d.end_range

AllSessions == {"GetAllSessionsExcludingUser", "GetAllSessionsForBackfill"}

\* C35 - GetAllSessionsExcludingUser does not depend on exclude_user_key: two
\* calls in a row on one store for the same page, whatever user each names,
\* return the same list; the list is the one GetAllSessionsForBackfill
\* returns for that page; a first page as wide as the store holds every
\* Session owned by the named user.
C35_ExcludeKeyIgnored ==
    [][ /\ (resp'.h \in AllSessions /\ resp.h \in AllSessions
            /\ SamePage(resp, resp')) =>
              /\ resp'.err = "" /\ resp.err = ""
              /\ resp'.out = resp.out
        /\ (resp'.h = "GetAllSessionsExcludingUser" /\ resp'.d.start = 0) =>
              \A id \in NodeIds(db) :
                 Parallel(db, "UserOwnsSession", resp'.d.exclude_user_key, id) # {}
                 => \E i \in DOMAIN resp'.out : resp'.out[i].id = id
      ]_vars

\* the answer for user k1 right after the answer for user k2: both hold a
\* Session owned by k1 and a Session owned by k2
C35_Witness ==
    /\ resp.h = "GetAllSessionsExcludingUser"
    /\ resp.d.exclude_user_key = "k1" /\ resp.d.start = 0
    /\ Len(resp.out) = 2
    /\ \E i, j \in DOMAIN resp.out :
          /\ Parallel(db, "UserOwnsSession", "k1", resp.out[i].id) # {}
          /\ Parallel(db, "UserOwnsSession", "k2", resp.out[j].id) # {}
          /\ Parallel(db, "UserOwnsSession", "k1", resp.out[j].id) = {}

\* the edge label that ends the chain of a cross-session handler
LeafEdge(h) ==
    IF h = "GetCrossSessionContext" THEN "ActivityMentionsEntity"
    ELSE "ActivityRelatedToConcept"

CrossSessionHandlers == {"GetCrossSessionContext", "GetCrossSessionConcepts"}

\* the chain of a user key: its Users, the Sessions they own, the Activities
\* in those Sessions, the leaves those Activities are linked to
Chain(s, k, h) ==
    LET U == Carrying(s, "User", "external_id", k)
        S == {s.edges[e].to : e \in {x \in DOMAIN s.edges :
                 s.edges[x].label = "UserOwnsSession" /\ s.edges[x].from \in U}}
        A == {s.edges[e].from : e \in {x \in DOMAIN s.edges :
                 s.edges[x].label = "ActivityInSession" /\ s.edges[x].to \in S}}
        L == {s.edges[e].to : e \in {x \in DOMAIN s.edges :
                 s.edges[x].label = LeafEdge(h) /\ s.edges[x].from \in A}}
    IN  [users |-> U, sessions |-> S, activities |-> A, leaves |-> L]

ChainLeaves(s, k, h) == Chain(s, k, h).leaves

\* a step that changes no record of a user's chain, adds no User of the key
\* and hangs no new edge on the chain
Foreign(k, h) ==
    LET c == Chain(db, k, h) IN
    /\ Carrying(db', "User", "external_id", k) = c.users
    /\ \A id \in c.users \cup c.sessions \cup c.activities \cup c.leaves :
          db'.nodes[id] = db.nodes[id]
    /\ \A e \in DOMAIN db'.edges \ DOMAIN db.edges :
          LET x == db'.edges[e] IN
          /\ ~(x.label = "UserOwnsSession" /\ x.from \in c.users)
          /\ ~(x.label = "ActivityInSession" /\ x.to \in c.sessions)
          /\ ~(x.label = LeafEdge(h) /\ x.from \in c.activities)

\* C36 - Per-user isolation of traversals: GetCrossSessionContext and
\* GetCrossSessionConcepts for a user key return exactly the entities
\* (concepts) linked from an Activity that is linked by ActivityInSession to
\* a Session owned by a User of that key; a request that changes only
\* records and edges outside that user's chain leaves the result for the
\* key unchanged.
C36_PerUserIsolation ==
    [][ /\ resp'.h \in CrossSessionHandlers =>
             /\ resp'.err = ""
             /\ {resp'.out[i].id : i \in DOMAIN resp'.out}
                   = ChainLeaves(db, resp'.d.user_key, resp'.h)
        /\ \A k \in Keys : \A h \in CrossSessionHandlers :
             (db' # db /\ Foreign(k, h)) =>
                CrossSession(h, db', [user_key |-> k]).out
                   = CrossSession(h, db, [user_key |-> k]).out
      ]_vars

\* the chain of the user k1 is complete and returns its Entity; the answer
\* for the user k2 is empty
C36_Witness ==
    /\ resp.h = "GetCrossSessionContext" /\ resp.d.user_key = "k2"
    /\ resp.out = <<>>
    /\ ChainLeaves(db, "k1", "GetCrossSessionContext") # {}
    /\ GetCrossSessionContext(db, [user_key |-> "k1"]).out # <<>>

\* C37 - Entity frequency never accumulates: a committed UpsertEntity call
\* leaves the Entity of its name with frequency 1 and returns frequency 1,
\* whether it inserted the Entity or merged into one that held another
\* frequency or had been upserted before; it changes no other Entity.
C37_FrequencyConstant ==
    [][ (resp'.h = "UpsertEntity" /\ resp'.err = "") =>
          LET id == resp'.out[1].id IN
          /\ get_property(db', id, "name") = <<resp'.d.name>>
          /\ get_property(db', id, "frequency") = <<"1">>
          /\ resp'.out[1].props.frequency = "1"
          /\ id \in NodeIds(db) => Len(db'.nodes) = Len(db.nodes)
          /\ \A n \in NodeIds(db) \ {id} : db'.nodes[n] = db.nodes[n]
      ]_vars

\* the same UpsertEntity call made twice in a row, with a second Entity that
\* was stored with frequency 2: the upserted Entity holds 1
C37_Witness ==
    /\ resp.h = "UpsertEntity" /\ resp.err = "" /\ resp.again
    /\ get_property(db, resp.out[1].id, "frequency") = <<"1">>
    /\ \E n \in NodeIds(db) : get_property(db, n, "frequency") = <<"2">>

\* the SessionInNode edges of a store
InNode(s) == {e \in DOMAIN s.edges : s.edges[e].label = "SessionInNode"}

\* the paths Session -> TimelineNode <- Session that start at a Session of
\* the key: an edge out of it and an edge into the same node
RelatedPaths(s, key) ==
    {p \in InNode(s) \X InNode(s) :
        /\ s.edges[p[1]].from \in Carrying(s, "Session", "external_id", key)
        /\ s.edges[p[2]].to = s.edges[p[1]].to}

\* C38 - GetRelatedSessions includes the queried session: the answer holds
\* one entry per path from a Session of the key over a SessionInNode edge to
\* a TimelineNode and back over a SessionInNode edge, so a queried Session
\* with at least one such edge is listed itself, beside every Session
\* linked to any of its nodes; the answer is empty, without error, when no
\* Session carries the key.
C38_RelatedIncludesSelf ==
    [][ resp'.h = "GetRelatedSessions" =>
          LET key   == resp'.d.session_external_id
              paths == RelatedPaths(db, key)
          IN  /\ resp'.err = ""
              /\ Len(resp'.out) = Cardinality(paths)
              /\ \A x \in NodeIds(db) :
                    Cardinality({i \in DOMAIN resp'.out : resp'.out[i].id = x})
                    = Cardinality({p \in paths : db.edges[p[2]].from = x})
              /\ \A x \in Carrying(db, "Session", "external_id", key) :
                    (\E e \in InNode(db) : db.edges[e].from = x)
                    => \E i \in DOMAIN resp'.out : resp'.out[i].id = x
              /\ Carrying(db, "Session", "external_id", key) = {}
                    => resp'.out = <<>>
      ]_vars

\* the answer lists the queried Session and another Session of its node
C38_Witness ==
    /\ resp.h = "GetRelatedSessions" /\ resp.err = ""
    /\ \E i, j \in DOMAIN resp.out :
          /\ resp.out[i].props.external_id = resp.d.session_external_id
          /\ resp.out[j].props.external_id # resp.d.session_external_id

====
